---- MODULE Spec2Model ----
(***************************************************************************)
(* Model of the NH representative lookup service (app.py) and of the       *)
(* Nominatim-only geocoder (utils/geocode.py).                             *)
(*                                                                         *)
(* Strings the code inspects character by character (labels, addresses,    *)
(* ids, names) are sequences of one-character strings, so that strip(),    *)
(* title(), split() and the regular expression of sldl_to_openstates are   *)
(* computed as the code computes them.  A Python None or "" (both falsy)   *)
(* is the empty sequence; an optional number is << >> or <<n>>.            *)
(***************************************************************************)
EXTENDS Integers, Sequences, FiniteSets, TLC

\* ------------------------------------------------------------------------
\* Python string primitives
\* ------------------------------------------------------------------------
LowerLetters ==
    << "a","b","c","d","e","f","g","h","i","j","k","l","m",
       "n","o","p","q","r","s","t","u","v","w","x","y","z" >>

UpperLetters ==
    << "A","B","C","D","E","F","G","H","I","J","K","L","M",
       "N","O","P","Q","R","S","T","U","V","W","X","Y","Z" >>

Digits == { "0","1","2","3","4","5","6","7","8","9" }

Range(f) == { f[i] : i \in DOMAIN f }

IsSpace(c) == c \in { " ", "\t", "\n" }

IsDigit(c) == c \in Digits

IsLowerCh(c) == c \in Range(LowerLetters)

IsUpperCh(c) == c \in Range(UpperLetters)

IsAlpha(c) == IsLowerCh(c) \/ IsUpperCh(c)

IndexIn(seq, c) == CHOOSE i \in DOMAIN seq : seq[i] = c

LowerCh(c) == IF IsUpperCh(c) THEN LowerLetters[IndexIn(UpperLetters, c)] ELSE c

UpperCh(c) == IF IsLowerCh(c) THEN UpperLetters[IndexIn(LowerLetters, c)] ELSE c

\* str.lower()
StrLower(s) == [ i \in DOMAIN s |-> LowerCh(s[i]) ]

\* str.title(): a letter that follows a non-letter is upper-cased, any other
\* letter is lower-cased
StrTitle(s) ==
    [ i \in DOMAIN s |->
        IF i = 1 \/ ~IsAlpha(s[i - 1]) THEN UpperCh(s[i]) ELSE LowerCh(s[i]) ]

RECURSIVE LStrip(_)
LStrip(s) == IF s # << >> /\ IsSpace(Head(s)) THEN LStrip(Tail(s)) ELSE s

RECURSIVE RStrip(_)
RStrip(s) ==
    IF s # << >> /\ IsSpace(s[Len(s)]) THEN RStrip(SubSeq(s, 1, Len(s) - 1)) ELSE s

\* str.strip()
Strip(s) == RStrip(LStrip(s))

\* str.split(sep) for a one-character separator: always at least one part
RECURSIVE SplitAcc(_, _, _)
SplitAcc(s, sep, cur) ==
    IF s = << >> THEN << cur >>
    ELSE IF Head(s) = sep THEN << cur >> \o SplitAcc(Tail(s), sep, << >>)
    ELSE SplitAcc(Tail(s), sep, Append(cur, Head(s)))

Split(s, sep) == SplitAcc(s, sep, << >>)

\* str.split() without argument: the whitespace-separated words
RECURSIVE WordsAcc(_, _)
WordsAcc(s, cur) ==
    IF s = << >> THEN (IF cur = << >> THEN << >> ELSE << cur >>)
    ELSE IF IsSpace(Head(s))
         THEN (IF cur = << >> THEN << >> ELSE << cur >>) \o WordsAcc(Tail(s), << >>)
         ELSE WordsAcc(Tail(s), Append(cur, Head(s)))

Words(s) == WordsAcc(s, << >>)

\* " ".join(parts)
RECURSIVE JoinSp(_)
JoinSp(parts) ==
    IF parts = << >> THEN << >>
    ELSE IF Len(parts) = 1 THEN parts[1]
    ELSE parts[1] \o << " " >> \o JoinSp(Tail(parts))

\* re.sub(r"\s+", " ", s)
RECURSIVE CollapseWs(_)
CollapseWs(s) ==
    IF s = << >> THEN << >>
    ELSE IF IsSpace(Head(s))
         THEN << " " >> \o CollapseWs(LStrip(s))
         ELSE << Head(s) >> \o CollapseWs(Tail(s))

\* re.fullmatch(r"\d+", s)
AllDigits(s) == s # << >> /\ \A i \in DOMAIN s : IsDigit(s[i])

\* length of the longest suffix of s whose characters all satisfy the test
RECURSIVE TrailingDigits(_)
TrailingDigits(s) ==
    IF s # << >> /\ IsDigit(s[Len(s)])
    THEN 1 + TrailingDigits(SubSeq(s, 1, Len(s) - 1)) ELSE 0

RECURSIVE TrailingSpaces(_)
TrailingSpaces(s) ==
    IF s # << >> /\ IsSpace(s[Len(s)])
    THEN 1 + TrailingSpaces(SubSeq(s, 1, Len(s) - 1)) ELSE 0

RECURSIVE TrailingAlphas(_)
TrailingAlphas(s) ==
    IF s # << >> /\ IsAlpha(s[Len(s)])
    THEN 1 + TrailingAlphas(SubSeq(s, 1, Len(s) - 1)) ELSE 0

\* the digit group left by 0*(\d+): leading zeros go to 0*, but \d+ keeps
\* at least one digit
RECURSIVE StripZeros(_)
StripZeros(d) == IF Len(d) > 1 /\ Head(d) = "0" THEN StripZeros(Tail(d)) ELSE d

\* ------------------------------------------------------------------------
\* Label helpers
\* ------------------------------------------------------------------------
\* variant: one leading zero of the number is dropped, not all of them
sldl_to_openstates_OneZero(name) ==
    IF name = << >> THEN << >>
    ELSE
      LET s  == Strip(name)
          nd == TrailingDigits(s)
          s1 == SubSeq(s, 1, Len(s) - nd)
          ns == TrailingSpaces(s1)
          s2 == SubSeq(s1, 1, Len(s1) - ns)
          na == TrailingAlphas(s2)
          d  == SubSeq(s, Len(s) - nd + 1, Len(s))
      IN IF nd > 0 /\ ns > 0 /\ na > 0
         THEN SubSeq(s2, Len(s2) - na + 1, Len(s2)) \o << " " >>
              \o (IF Len(d) > 1 /\ Head(d) = "0" THEN Tail(d) ELSE d)
         ELSE s

\* re.search(r"([A-Za-z]+)\s+0*(\d+)$", name.strip()): the pattern is anchored
\* at the end, so it matches exactly when the stripped name ends with a run
\* of letters, a run of whitespace and a run of digits; the leftmost match
\* takes the whole run of letters.
sldl_to_openstates(name) ==
    IF name = << >> THEN << >>
    ELSE
      LET s  == Strip(name)
          nd == TrailingDigits(s)
          s1 == SubSeq(s, 1, Len(s) - nd)
          ns == TrailingSpaces(s1)
          s2 == SubSeq(s1, 1, Len(s1) - ns)
          na == TrailingAlphas(s2)
      IN IF nd > 0 /\ ns > 0 /\ na > 0
         THEN SubSeq(s2, Len(s2) - na + 1, Len(s2)) \o << " " >>
              \o StripZeros(SubSeq(s, Len(s) - nd + 1, Len(s)))
         ELSE s

county_label_from_sldl(cleaned) ==
    LET parts == Words(Strip(cleaned))
    IN IF Len(parts) >= 2 THEN JoinSp(SubSeq(parts, 1, Len(parts) - 1)) ELSE << >>

parse_town_from_matched(addr) ==
    IF addr = << >> THEN << >>
    ELSE LET parts == Split(addr, ",")
         IN IF Len(parts) >= 2 THEN StrTitle(Strip(parts[2])) ELSE << >>

\* ------------------------------------------------------------------------
\* Text used by the program and by the modelled inputs
\* ------------------------------------------------------------------------
Sullivan == << "S", "u", "l", "l", "i", "v", "a", "n" >>

Cornish == << "C", "o", "r", "n", "i", "s", "h" >>

Plainfield == << "P", "l", "a", "i", "n", "f", "i", "e", "l", "d" >>

Charlestown == << "C", "h", "a", "r", "l", "e", "s", "t", "o", "w", "n" >>

Newport == << "N", "e", "w", "p", "o", "r", "t" >>

Unity == << "U", "n", "i", "t", "y" >>

Unknown == << "U", "n", "k", "n", "o", "w", "n" >>

lower == << "l", "o", "w", "e", "r" >>

Sullivan2 == Sullivan \o << " ", "2" >>

Sullivan7 == Sullivan \o << " ", "7" >>

Sullivan10 == Sullivan \o << " ", "1", "0" >>

\* app.py:57-63
NH_FLOTERIAL_BY_TOWN_BUILTIN ==
    << << Cornish, Sullivan7 >>, << Plainfield, Sullivan7 >>,
       << Charlestown, Sullivan7 >>, << Newport, Sullivan7 >>,
       << Unity, Sullivan7 >> >>

\* ------------------------------------------------------------------------
\* Floterial map loaders.  A dict of lists is a function from its keys to
\* sequences; a CSV file is [exists, rows], a row has one field per column
\* the loader reads (an absent column reads as the empty text).
\* ------------------------------------------------------------------------
\* out.setdefault(k, []).append(d)
DictAppend(out, k, d) ==
    [ x \in DOMAIN out \cup { k } |->
        IF x = k THEN (IF k \in DOMAIN out THEN Append(out[k], d) ELSE << d >>)
        ELSE out[x] ]

\* the non-empty stripped parts of a ';'-separated cell
RECURSIVE NonEmptyParts(_)
NonEmptyParts(parts) ==
    IF parts = << >> THEN << >>
    ELSE IF Strip(Head(parts)) # << >>
         THEN << Strip(Head(parts)) >> \o NonEmptyParts(Tail(parts))
         ELSE NonEmptyParts(Tail(parts))

RECURSIVE AppendAll(_, _, _)
AppendAll(out, k, ds) ==
    IF ds = << >> THEN out ELSE AppendAll(DictAppend(out, k, Head(ds)), k, Tail(ds))

\* append each d of ds not already in out[k]
RECURSIVE AppendNew(_, _, _)
AppendNew(out, k, ds) ==
    IF ds = << >> THEN out
    ELSE IF k \in DOMAIN out /\ Head(ds) \in Range(out[k])
         THEN AppendNew(out, k, Tail(ds))
         ELSE AppendNew(DictAppend(out, k, Head(ds)), k, Tail(ds))

Or(a, b) == IF a # << >> THEN a ELSE b

RECURSIVE TownRows(_, _)
TownRows(out, rows) ==
    IF rows = << >> THEN out
    ELSE LET row  == Head(rows)
             town == StrTitle(Strip(Or(row.town, row.Town)))
             cell == Strip(Or(row.district, row.District))
         IN IF town = << >> \/ cell = << >>
            THEN TownRows(out, Tail(rows))
            ELSE TownRows(AppendAll(out, town, NonEmptyParts(Split(cell, ";"))),
                          Tail(rows))

RECURSIVE BuiltinRows(_, _)
BuiltinRows(out, items) ==
    IF items = << >> THEN out
    ELSE BuiltinRows(DictAppend(out, Head(items)[1], Head(items)[2]), Tail(items))

EmptyDict == [ x \in {} |-> << >> ]

\* variant: without the file there is no entry at all
_load_town_map_NoSeed(file) ==
    IF ~file.exists THEN EmptyDict
    ELSE TownRows(BuiltinRows(EmptyDict, NH_FLOTERIAL_BY_TOWN_BUILTIN), file.rows)

\* the built-in seed, then the rows of the file when it can be opened
_load_town_map(file) ==
    LET out == BuiltinRows(EmptyDict, NH_FLOTERIAL_BY_TOWN_BUILTIN)
    IN IF ~file.exists THEN out ELSE TownRows(out, file.rows)

RECURSIVE MapCollapse(_)
MapCollapse(parts) ==
    IF parts = << >> THEN << >>
    ELSE << CollapseWs(Head(parts)) >> \o MapCollapse(Tail(parts))

\* variant: a row with an empty base cell is loaded under the empty label
RECURSIVE BaseRows_KeepEmptyBase(_, _)
BaseRows_KeepEmptyBase(out, rows) ==
    IF rows = << >> THEN out
    ELSE LET row    == Head(rows)
             base0  == StrTitle(Strip(Or(row.base_label, row.base)))
             cell   == Strip(Or(row.floterials, row.floterial))
             base   == CollapseWs(base0)
             values == MapCollapse(NonEmptyParts(Split(cell, ";")))
         IN IF cell = << >> \/ values = << >>
            THEN BaseRows_KeepEmptyBase(out, Tail(rows))
            ELSE BaseRows_KeepEmptyBase(AppendNew(out, base, values), Tail(rows))

\* the loop over the rows of floterial_by_base.csv (app.py:504-515)
RECURSIVE BaseRows(_, _)
BaseRows(out, rows) ==
    IF rows = << >> THEN out
    ELSE LET row    == Head(rows)
             base0  == StrTitle(Strip(Or(row.base_label, row.base)))
             cell   == Strip(Or(row.floterials, row.floterial))
             base   == CollapseWs(base0)
             values == MapCollapse(NonEmptyParts(Split(cell, ";")))
         IN IF base0 = << >> \/ cell = << >> \/ values = << >>
            THEN BaseRows(out, Tail(rows))
            ELSE BaseRows(AppendNew(out, base, values), Tail(rows))

_load_base_map(file) ==
    IF ~file.exists THEN EmptyDict ELSE BaseRows(EmptyDict, file.rows)

\* ------------------------------------------------------------------------
\* People records and _ingest.  An upstream record carries the fields
\* _ingest reads; party, e-mail, offices and links are copied through by the
\* code without influencing any decision and are left out.
\* ------------------------------------------------------------------------
RawPerson(id, name, district, jur, org) ==
    [ id |-> id, openstates_id |-> << >>, open_states_id |-> << >>,
      name |-> name, district |-> district, jurisdiction |-> jur,
      org_classification |-> org, role_district |-> << >> ]

\* variant: a record without any id is keyed by its name alone
PersonKey_NameOnly(p) ==
    Or(p.id, Or(p.openstates_id, Or(p.open_states_id, p.name)))

\* the dict key of a record (app.py:208-213)
PersonKey(p) ==
    Or(p.id, Or(p.openstates_id, Or(p.open_states_id,
       p.name \o << "|" >> \o p.district)))

CollectedKeys(collected) == { collected[i].key : i \in DOMAIN collected }

\* variant: the entry is added whether or not its key is already there
IngestOne_Always(collected, p) ==
    LET pid      == PersonKey(p)
        district == Strip(Or(p.district, p.role_district))
        org      == StrLower(p.org_classification)
    IN Append(collected,
              [ key |-> pid, id |-> pid, name |-> p.name,
                district |-> district,
                currentRole |-> [ orgClassification |-> org,
                                  district |-> district ],
                jurisdiction |-> p.jurisdiction ])

\* one iteration of the loop of _ingest: the entry built for rec, added only
\* when its key is new
IngestOne(collected, p) ==
    LET pid      == PersonKey(p)
        district == Strip(Or(p.district, p.role_district))
        org      == StrLower(p.org_classification)
    IN IF pid \in CollectedKeys(collected) THEN collected
       ELSE Append(collected,
                   [ key |-> pid, id |-> pid, name |-> p.name,
                     district |-> district,
                     currentRole |-> [ orgClassification |-> org,
                                       district |-> district ],
                     jurisdiction |-> p.jurisdiction ])

\* a dict in insertion order is the sequence of its values, each carrying
\* its key
RECURSIVE _ingest(_, _)
_ingest(collected, results) ==
    IF results = << >> THEN collected
    ELSE _ingest(IngestOne(collected, Head(results)), Tail(results))

IsNHLower(v) ==
    /\ v.jurisdiction = "New Hampshire"
    /\ v.currentRole.orgClassification = lower

RECURSIVE SelectSeq2(_, _)
SelectSeq2(seq, keep) ==
    IF seq = << >> THEN << >>
    ELSE IF Head(seq) \in keep THEN << Head(seq) >> \o SelectSeq2(Tail(seq), keep)
    ELSE SelectSeq2(Tail(seq), keep)

\* variant: every record is kept
NHLowerOnly_All(raw_people) == raw_people

\* the dict comprehension of app.py:551-555 and 575-579
NHLowerOnly(raw_people) ==
    SelectSeq2(raw_people, { v \in Range(raw_people) : IsNHLower(v) })

_apply_county_hint(raw_people, sldl_clean) ==
    LET county_hint == county_label_from_sldl(sldl_clean)
    IN IF county_hint = << >> THEN raw_people
       ELSE [ i \in DOMAIN raw_people |->
                LET lab == Strip(raw_people[i].district)
                IN IF AllDigits(lab)
                   THEN [ raw_people[i] EXCEPT !.district = county_hint \o << " " >> \o lab ]
                   ELSE raw_people[i] ]

normalize_person(person) ==
    [ id |-> person.id,
      name |-> person.name,
      district |-> Or(person.district, Or(person.currentRole.district, Unknown)) ]

\* app.py:581-586
Reps(raw_people, sldl_clean) ==
    [ i \in DOMAIN raw_people |->
        LET r == normalize_person(raw_people[i])
        IN IF r.district = << >> \/ r.district = Unknown
           THEN [ r EXCEPT !.district = sldl_clean ] ELSE r ]

\* the probe points of _neighbors, in the order they are yielded; one unit
\* of the coordinate grid is PROBE_STEP_DEG = PROBE_START_DEG = 0.01 degree
PROBE_START_DEG == 1

PROBE_STEP_DEG == 1

PROBE_MAX_RINGS == 2

\* variant: the centre is not left out of a ring
RingPoints_WithCentre(lat, lon, d) ==
    << << lat - d, lon - d >>, << lat - d, lon >>, << lat - d, lon + d >>,
       << lat, lon - d >>, << lat, lon >>, << lat, lon + d >>,
       << lat + d, lon - d >>, << lat + d, lon >>, << lat + d, lon + d >> >>

RingPoints(lat, lon, d) ==
    << << lat - d, lon - d >>, << lat - d, lon >>, << lat - d, lon + d >>,
       << lat, lon - d >>, << lat, lon + d >>,
       << lat + d, lon - d >>, << lat + d, lon >>, << lat + d, lon + d >> >>

RECURSIVE RingsFrom(_, _, _, _, _, _)
RingsFrom(lat, lon, start_deg, step_deg, r, rings) ==
    IF r > rings THEN << >>
    ELSE RingPoints(lat, lon, start_deg + (r - 1) * step_deg)
         \o RingsFrom(lat, lon, start_deg, step_deg, r + 1, rings)

_neighbors(lat, lon, start_deg, step_deg, rings) ==
    << << lat, lon >> >> \o RingsFrom(lat, lon, start_deg, step_deg, 1, rings)

\* ------------------------------------------------------------------------
\* The modelled environment: request inputs, files and upstream answers
\* ------------------------------------------------------------------------
\* the address of a request as received: absent or empty, blank, or a street
\* address with surrounding blanks
Addresses ==
    { << >>, << " ", " " >>, << " " >> \o << "1", " ", "A", ",", " ", "C", "o", "r", "n", "i", "s", "h", ",", " ", "N", "H" >> \o << " " >> }

NoRow == [ base_label |-> << >>, base |-> << >>, floterials |-> << >>, floterial |-> << >>,
           town |-> << >>, Town |-> << >>, district |-> << >>, District |-> << >> ]

\* floterial_by_base.csv as found at start-up
BaseFiles ==
    { [ exists |-> FALSE, rows |-> << >> ],
      [ exists |-> TRUE,
        rows |-> << [ NoRow EXCEPT !.base_label = << "s", "u", "l", "l", "i", "v", "a", "n", " ", " ", "2" >>,
                                   !.floterials = << "S", "u", "l", "l", "i", "v", "a", "n", " ", "1", "0", ";", " ", "S", "u", "l", "l", "i", "v", "a", "n", " ", " ", "7", ";" >> ],
                    [ NoRow EXCEPT !.floterials = Sullivan7 ],
                    [ NoRow EXCEPT !.base = Sullivan10, !.floterial = Sullivan7 ] >> ] }

\* floterial_by_town.csv as found at start-up
TownFiles ==
    { [ exists |-> FALSE, rows |-> << >> ],
      [ exists |-> TRUE,
        rows |-> << [ NoRow EXCEPT !.town = << "c", "o", "r", "n", "i", "s", "h" >>, !.district = Sullivan10 ],
                    [ NoRow EXCEPT !.Town = Unity ] >> ] }

Ann == << "A", "n", "n" >>

Bob == << "B", "o", "b" >>

\* what the Census geocoder can answer with: a match carries the fields
\* geocode_address reads; x and y are optional
CensusMatches ==
    { [ matchedAddress |-> << "1", " ", "A", ",", " ", "C", "O", "R", "N", "I", "S", "H", ",", " ", "N", "H" >>, x |-> << 0 >>, y |-> << 0 >>,
        sldl_name |-> << "D", "i", "s", "t", "r", "i", "c", "t", " ", "S", "u", "l", "l", "i", "v", "a", "n", " ", "0", "2" >> ],
      [ matchedAddress |-> << "2", " ", "B", ",", " ", "U", "N", "I", "T", "Y", ",", " ", "N", "H" >>, x |-> << 1 >>, y |-> << 0 >>,
        sldl_name |-> Sullivan10 ],
      [ matchedAddress |-> << "1", " ", "A", ",", " ", "C", "O", "R", "N", "I", "S", "H", ",", " ", "N", "H" >>, x |-> << >>, y |-> << 0 >>,
        sldl_name |-> << "D", "i", "s", "t", "r", "i", "c", "t", " ", "S", "u", "l", "l", "i", "v", "a", "n", " ", "0", "2" >> ] }

CensusOutcomes ==
    { [ kind |-> "error", m |-> << >> ], [ kind |-> "empty", m |-> << >> ] }
    \cup { [ kind |-> "match", m |-> m ] : m \in CensusMatches }

\* what Nominatim can answer with: an exception or non-2xx status, an empty
\* array, or a first record
NominatimRecords ==
    { [ display_name |-> << "1", " ", "A", ",", " ", "C", "O", "R", "N", "I", "S", "H", ",", " ", "N", "H" >>, lat |-> << 0 >>, lon |-> << 0 >>, town |-> << "c", "o", "r", "n", "i", "s", "h" >> ],
      [ display_name |-> << "1", " ", "A", ",", " ", "C", "O", "R", "N", "I", "S", "H", ",", " ", "N", "H" >>, lat |-> << >>, lon |-> << 0 >>, town |-> << "c", "o", "r", "n", "i", "s", "h" >> ] }

NominatimOutcomes ==
    { [ kind |-> "error", rec |-> << >> ], [ kind |-> "empty", rec |-> << >> ] }
    \cup { [ kind |-> "rec", rec |-> r ] : r \in NominatimRecords }

\* the people the directory knows, as people.geo and /people report them
P_Ann2 == RawPerson(<< "p", "1" >>, Ann, << "2" >>, "New Hampshire", lower)

P_Ann10 == RawPerson(<< "p", "1" >>, Ann, Sullivan10, "New Hampshire", lower)

P_Bob10 == RawPerson(<< "p", "2" >>, Bob, Sullivan10, "New Hampshire", << "L", "o", "w", "e", "r" >>)

P_Senator == RawPerson(<< "p", "3" >>, << "C", "y" >>, << "8" >>, "New Hampshire", << "u", "p", "p", "e", "r" >>)

P_Vermont == RawPerson(<< "p", "4" >>, << "V", "i" >>, << "1" >>, "Vermont", lower)

P_Eve7 == RawPerson(<< "p", "5" >>, << "E", "v", "e" >>, Sullivan7, "New Hampshire", lower)

P_Dee7 == RawPerson(<< >>, << "D", "e", "e" >>, Sullivan7, "New Hampshire", lower)

P_Dee10 == RawPerson(<< >>, << "D", "e", "e" >>, Sullivan10, "New Hampshire", lower)

\* the answer of people.geo at a point, when it answers
GeoWorlds == { "split", "sparse" }

PeopleGeo(w, pt) ==
    IF w = "split"
    THEN (IF pt[2] <= 0 THEN << P_Ann2, P_Senator >> ELSE << P_Bob10, P_Vermont >>)
    ELSE (IF pt = << 0, 0 >> THEN << P_Ann2 >> ELSE << >>)

\* the listed members of a district, when /people answers with them
DirectoryData(label) ==
    IF label = Sullivan10 THEN << P_Ann10, P_Bob10, P_Senator, P_Dee10 >>
    ELSE IF label = Sullivan7 THEN << P_Eve7, P_Dee7 >>
    ELSE IF label = Sullivan2 THEN << P_Ann2 >>
    ELSE << >>

\* one answer of fetch_people_by_district: an error of _get (rate limit,
\* HTTP error status, transport failure) or a result list
DirectoryOutcomes(label) ==
    { [ err |-> e, data |-> << >> ] : e \in { "429", "5xx", "net" } }
    \cup { [ err |-> "", data |-> d ] : d \in { << >>, DirectoryData(label) } }

\* ------------------------------------------------------------------------
\* State
\* ------------------------------------------------------------------------
VARIABLES
    program,              \* which program runs: the service app.py ("app") or
                          \* a caller of utils/geocode.py ("utils")
    OPENSTATES_API_KEY,   \* TRUE when a key is configured (app.py:20)
    NOMINATIM_FALLBACK,   \* app.py:45
    FLOTERIAL_MAP_TOWN,   \* app.py:520
    FLOTERIAL_MAP_BASE,   \* app.py:521
    PROBE_CACHE,          \* app.py:49, probe point -> cached result list
    VOTES_CACHE,          \* app.py:50, [rows, src]; its age is not kept
    world,                \* which people.geo data the directory serves
    pc,                   \* position of the request being served
    req,                  \* the request: address received and stripped, flags
    geo,                  \* what geocode_address returned: [out, err, via]
    primary_err,          \* how the Census attempt failed ("" when it matched)
    alt,                  \* what geocode_nominatim returned to geocode_address
    collected,            \* raw_people / collected of the lookup in progress
    probe_i,              \* index of the next probe point
    people_geo_up,        \* whether people.geo answers during this lookup
    uniq_labels,          \* uniq_labels of _lookup_core (app.py:568)
    stage,                \* overlay loop in progress: "base" or "town"
    todo,                 \* labels the overlay loop has still to fetch
    attempt,              \* loop variable i of _fetch_district_retry
    sleeps,               \* delays slept so far in this district fetch
    first_answer,         \* how the first call of this district fetch was
                          \* answered ("" before it)
    fetched,              \* district fetches completed in this lookup:
                          \* the set of [label, stage, ok]
    last_fetch,           \* the district fetch completed last
    calls,                \* outbound calls made for this request, per service
    stdout,               \* labels named by "[overlay] ... failed" lines
    response,             \* the response of the last request
    u_address,            \* utils.geocode_address: the stripped address
    u_pc,                 \* utils.geocode_address: "idle" or "req"
    u_attempt,            \* index into attempts of the attempt in progress
    u_try,                \* iterations of the loop of _req already done
    u_delay,              \* local delay of _req
    u_last_err,           \* last_err of utils.geocode_address
    u_calls,              \* requests sent to Nominatim by this call
    u_result,             \* outcome of the last call of utils.geocode_address
    csv_files,            \* the overlay CSV files as found at start-up:
                          \* [town, base], each [exists, rows]
    debug_report,         \* the counts last reported by /debug/floterials
    csv_source,           \* the two CSV files as they are now, and whether a
                          \* time-to-live has passed since they last changed
    district_index,       \* utils/districts.py: the features handed to
                          \* DistrictIndex and its _items once constructed
    find_call,            \* the last call of DistrictIndex.find: its point
                          \* and what it returned
    people_pages,         \* export_nh_house_ids.py: what /people holds, the
                          \* number of full pages and the size of the last
    x_pc,                 \* where the export script is
    x_page,               \* main's page
    x_attempt,            \* fetch_page's attempt
    x_total,              \* main's total
    out_part,             \* the file at out_part
    out_final,            \* the file at out_final
    out_before,           \* the file at out_final when the script started
    label_in,             \* a district name handed to sldl_to_openstates
    label_out             \* what sldl_to_openstates returned for it, and for
                          \* each of its own results handed back to it

vars == << program, OPENSTATES_API_KEY, NOMINATIM_FALLBACK, FLOTERIAL_MAP_TOWN,
           FLOTERIAL_MAP_BASE, PROBE_CACHE, VOTES_CACHE, world, pc, req, geo, primary_err, alt,
           collected, probe_i, people_geo_up, uniq_labels, stage, todo, attempt, sleeps, first_answer,
           fetched, last_fetch, calls, stdout, response, u_address, u_pc,
           u_attempt, u_try, u_delay, u_last_err, u_calls, u_result,
           csv_files, debug_report, csv_source, district_index, find_call,
           people_pages, x_pc, x_page, x_attempt, x_total, out_part, out_final,
           out_before, label_in, label_out >>

export_vars == << people_pages, x_pc, x_page, x_attempt, x_total, out_part,
                 out_final, out_before >>

district_vars == << district_index, find_call >>

label_vars == << label_in, label_out >>

utils_vars == << u_address, u_pc, u_attempt, u_try, u_delay, u_last_err, u_calls, u_result >>

app_vars == << district_vars, csv_files, debug_report, csv_source, OPENSTATES_API_KEY, NOMINATIM_FALLBACK, FLOTERIAL_MAP_TOWN,
               FLOTERIAL_MAP_BASE, PROBE_CACHE, VOTES_CACHE, world, pc, req, geo, primary_err, alt,
               collected, probe_i, people_geo_up, uniq_labels, stage, todo, attempt, sleeps, first_answer,
               fetched, last_fetch, calls, stdout, response >>

\* what no step of a lookup changes
fixed == << program, utils_vars, label_vars, export_vars, district_vars, csv_files, debug_report,
           csv_source,
           OPENSTATES_API_KEY, NOMINATIM_FALLBACK, FLOTERIAL_MAP_TOWN,
             FLOTERIAL_MAP_BASE, world >>

\* calls to the geocoders, to people.geo and reads of the votes source; the
\* calls to /people are counted per district fetch (attempt, last_fetch)
NoCalls == [ census |-> 0, nominatim |-> 0, people_geo |-> 0, votes |-> 0 ]

NoGeoOut == [ formattedAddress |-> << >>, lat |-> << >>, lon |-> << >>,
              town |-> << >>, sldl_name |-> << >> ]

NoGeo == [ out |-> NoGeoOut, err |-> "", via |-> "none" ]

NoFetch == [ label |-> << >>, calls |-> 0, sleeps |-> << >>, ok |-> FALSE,
             first |-> "" ]

\* the request being served: the address as received and stripped, and the
\* keyword arguments the route passes to _lookup_core
NoReq == [ received |-> FALSE, raw |-> << >>, address |-> << >>,
           include_votes |-> FALSE, refresh_votes |-> FALSE ]

NoAlt == [ found |-> FALSE, out |-> NoGeoOut ]

NoResponse == [ status |-> 0, success |-> FALSE, message |-> "" ]

ErrorResponse(msg) == [ status |-> 400, success |-> FALSE, message |-> msg ]

\* the environments the service is started in: the default settings with
\* every combination of CSV files, one start where people.geo knows few
\* members, and one start each without an API key and with
\* NOMINATIM_FALLBACK switched off
NoFile == [ exists |-> FALSE, rows |-> << >> ]

Deployments ==
    { [ key |-> TRUE, fallback |-> TRUE, town |-> t, base |-> b, world |-> "split" ] :
        t \in TownFiles, b \in BaseFiles }
    \cup { [ key |-> TRUE, fallback |-> TRUE, town |-> NoFile, base |-> NoFile,
            world |-> "sparse" ],
          [ key |-> TRUE, fallback |-> TRUE, town |-> NoFile,
            base |-> CHOOSE b \in BaseFiles : b.exists, world |-> "sparse" ],
          [ key |-> FALSE, fallback |-> TRUE, town |-> NoFile, base |-> NoFile,
            world |-> "split" ],
          [ key |-> TRUE, fallback |-> FALSE, town |-> NoFile, base |-> NoFile,
            world |-> "split" ] }

NoResult == [ kind |-> "none", lat |-> << >>, lon |-> << >>, err |-> "" ]

\* no deployment of the service: the settings left at their unset values
NoDeployment ==
    /\ csv_files = [ town |-> NoFile, base |-> NoFile ]
    /\ OPENSTATES_API_KEY = FALSE
    /\ NOMINATIM_FALLBACK = TRUE
    /\ FLOTERIAL_MAP_TOWN = EmptyDict
    /\ FLOTERIAL_MAP_BASE = EmptyDict
    /\ world = "split"

NoIndex == [ features |-> << >>, _items |-> << >>, constructed |-> FALSE ]

NoFind == [ called |-> FALSE, lat |-> 0, lon |-> 0, result |-> << >> ]

Absent == [ exists |-> FALSE, rows |-> << >> ]

\* the export script not run
NoExport ==
    /\ people_pages = [ full |-> 0, last |-> 0 ]
    /\ x_pc = "idle"
    /\ x_page = 1
    /\ x_attempt = 0
    /\ x_total = 0
    /\ out_part = Absent
    /\ out_final = Absent
    /\ out_before = Absent

NoReport == [ by_town_count |-> 0, by_base_count |-> 0, reported |-> FALSE ]

\* nothing requested yet
Quiet ==
    /\ debug_report = NoReport
    /\ find_call = NoFind
    /\ csv_source = [ town |-> csv_files.town, base |-> csv_files.base, aged |-> FALSE ]
    /\ u_address = << >>
    /\ u_pc = "idle"
    /\ u_attempt = 1
    /\ u_try = 0
    /\ u_delay = 1
    /\ u_last_err = ""
    /\ u_calls = 0
    /\ u_result = NoResult
    /\ PROBE_CACHE = EmptyDict
    /\ VOTES_CACHE = [ rows |-> << >>, src |-> "" ]
    /\ req = NoReq
    /\ geo = NoGeo
    /\ primary_err = ""
    /\ alt = NoAlt
    /\ collected = << >>
    /\ probe_i = 1
    /\ people_geo_up = TRUE
    /\ uniq_labels = {}
    /\ stage = "none"
    /\ todo = << >>
    /\ attempt = 0
    /\ sleeps = << >>
    /\ first_answer = ""
    /\ fetched = {}
    /\ last_fetch = NoFetch
    /\ calls = NoCalls
    /\ stdout = {}
    /\ response = NoResponse

Init ==
    /\ program \in { "app", "utils" }
    /\ IF program = "app"
       THEN \E d \in Deployments :
            /\ csv_files = [ town |-> d.town, base |-> d.base ]
            /\ OPENSTATES_API_KEY = d.key
            /\ NOMINATIM_FALLBACK = d.fallback
            /\ FLOTERIAL_MAP_TOWN = _load_town_map(d.town)
            /\ FLOTERIAL_MAP_BASE = _load_base_map(d.base)
            /\ world = d.world
       ELSE NoDeployment
    /\ pc = "idle"
    /\ Quiet
    /\ district_index = NoIndex
    /\ NoExport
    /\ label_in = << >>
    /\ label_out = << >>

\* ------------------------------------------------------------------------
\* Routes (app.py:786-816) and the head of _lookup_core (app.py:535-539)
\* ------------------------------------------------------------------------
\* variant: the route hands every address to _lookup_core
Receive_Unchecked(raw, include_votes, refresh_votes, missing) ==
    /\ program = "app"
    /\ pc = "idle"
    /\ req' = [ received |-> TRUE, raw |-> raw, address |-> Strip(raw),
                include_votes |-> include_votes,
                refresh_votes |-> refresh_votes ]
    /\ IF ~OPENSTATES_API_KEY
       THEN /\ response' = ErrorResponse("Missing OPENSTATES_API_KEY")
            /\ pc' = "idle"
       ELSE /\ response' = NoResponse
            /\ pc' = "census"
    /\ geo' = NoGeo
    /\ primary_err' = ""
    /\ alt' = NoAlt
    /\ collected' = << >>
    /\ probe_i' = 1
    /\ people_geo_up' = TRUE
    /\ uniq_labels' = {}
    /\ stage' = "none"
    /\ todo' = << >>
    /\ attempt' = 0
    /\ sleeps' = << >>
    /\ first_answer' = ""
    /\ fetched' = {}
    /\ last_fetch' = NoFetch
    /\ calls' = NoCalls
    /\ stdout' = {}
    /\ UNCHANGED << fixed, PROBE_CACHE, VOTES_CACHE >>

\* a route up to its call of _lookup_core, and the API key check there
Receive(raw, include_votes, refresh_votes, missing) ==
    /\ program = "app"
    /\ pc = "idle"
    /\ LET address == Strip(raw)
       IN /\ req' = [ received |-> TRUE, raw |-> raw, address |-> address,
                      include_votes |-> include_votes,
                      refresh_votes |-> refresh_votes ]
          /\ IF address = << >>
             THEN /\ response' = ErrorResponse(missing)
                  /\ pc' = "idle"
             ELSE IF ~OPENSTATES_API_KEY
             THEN /\ response' = ErrorResponse("Missing OPENSTATES_API_KEY")
                  /\ pc' = "idle"
             ELSE /\ response' = NoResponse
                  /\ pc' = "census"
    /\ geo' = NoGeo
    /\ primary_err' = ""
    /\ alt' = NoAlt
    /\ collected' = << >>
    /\ probe_i' = 1
    /\ people_geo_up' = TRUE
    /\ uniq_labels' = {}
    /\ stage' = "none"
    /\ todo' = << >>
    /\ attempt' = 0
    /\ sleeps' = << >>
    /\ first_answer' = ""
    /\ fetched' = {}
    /\ last_fetch' = NoFetch
    /\ calls' = NoCalls
    /\ stdout' = {}
    /\ UNCHANGED << fixed, PROBE_CACHE, VOTES_CACHE >>

lookup_legislators ==
    \E raw \in Addresses :
        Receive(raw, FALSE, FALSE, "Missing 'address' in body")

lookup_legislators_get ==
    \E raw \in Addresses :
        Receive(raw, FALSE, FALSE, "Missing address query param")

lookup_with_votes_post ==
    \E raw \in Addresses, refresh_votes \in BOOLEAN :
        Receive(raw, TRUE, refresh_votes, "Missing 'address' in body")

lookup_with_votes_get ==
    \E raw \in Addresses, refresh_votes \in BOOLEAN :
        Receive(raw, TRUE, refresh_votes, "Missing address query param")

\* ------------------------------------------------------------------------
\* Geocoding (app.py:95-150) and its check in _lookup_core (app.py:540-548)
\* ------------------------------------------------------------------------
\* variant: only the error of geocode_address is looked at
AfterGeocode_ErrOnly(g) ==
    /\ geo' = g
    /\ IF g.err # ""
       THEN /\ response' = ErrorResponse(g.err)
            /\ pc' = "idle"
            /\ UNCHANGED people_geo_up
       ELSE /\ response' = NoResponse
            /\ pc' = "probe"
            /\ people_geo_up' \in BOOLEAN

\* _lookup_core once geocode_address has returned g
AfterGeocode(g) ==
    /\ geo' = g
    /\ IF g.err # ""
       THEN /\ response' = ErrorResponse(g.err)
            /\ pc' = "idle"
            /\ UNCHANGED people_geo_up
       ELSE IF g.out.lat = << >> \/ g.out.lon = << >>
       THEN /\ response' = ErrorResponse("Geocoder did not return coordinates")
            /\ pc' = "idle"
            /\ UNCHANGED people_geo_up
       ELSE /\ response' = NoResponse
            /\ pc' = "probe"
            \* the environment: whether people.geo answers the probes that follow
            /\ people_geo_up' \in BOOLEAN

\* the dict built from the first Census match (app.py:127-141)
CensusOut(m) ==
    [ formattedAddress |-> m.matchedAddress, lat |-> m.y, lon |-> m.x,
      town |-> parse_town_from_matched(m.matchedAddress),
      sldl_name |-> m.sldl_name ]

\* the dict built from the first Nominatim record (app.py:106-115)
NominatimOut(rec) ==
    [ formattedAddress |-> rec.display_name, lat |-> rec.lat, lon |-> rec.lon,
      town |-> StrTitle(rec.town), sldl_name |-> << >> ]

PrimaryFailure(kind) ==
    IF kind = "empty" THEN "Address not found by geocoders."
    ELSE "Census Geocoder error"

\* variant: the fallback is tried after an empty match list only
UseFallback_EmptyOnly(kind) == NOMINATIM_FALLBACK /\ kind = "empty"

\* whether geocode_address calls geocode_nominatim after a Census failure of
\* the given kind (app.py:142 for an empty match list, 147 for an exception)
UseFallback(kind) == NOMINATIM_FALLBACK

\* the Census request of geocode_address and what follows its answer
geocode_address ==
    /\ pc = "census"
    /\ \E o \in CensusOutcomes :
        /\ calls' = [ calls EXCEPT !.census = @ + 1 ]
        /\ IF o.kind = "match"
           THEN /\ AfterGeocode([ out |-> CensusOut(o.m), err |-> "", via |-> "census" ])
                /\ primary_err' = ""
           ELSE IF UseFallback(o.kind)
           THEN /\ primary_err' = o.kind
                /\ pc' = "nominatim"
                /\ UNCHANGED << geo, response, people_geo_up >>
           ELSE /\ AfterGeocode([ out |-> NoGeoOut, err |-> PrimaryFailure(o.kind),
                                  via |-> "none" ])
                /\ primary_err' = o.kind
    /\ UNCHANGED << fixed, VOTES_CACHE, PROBE_CACHE, req, alt, collected, probe_i,
                    uniq_labels, stage, todo, attempt, sleeps, first_answer,
                    fetched, last_fetch, stdout >>

\* float(rec.get("lat")) raises on a missing value, and the except clause
\* turns every exception into None
NominatimResult(o) ==
    IF o.kind = "rec" /\ o.rec.lat # << >> /\ o.rec.lon # << >>
    THEN [ found |-> TRUE, out |-> NominatimOut(o.rec) ]
    ELSE [ found |-> FALSE, out |-> NoGeoOut ]

\* the fallback request of geocode_address (geocode_nominatim) and what
\* follows its answer
geocode_nominatim ==
    /\ pc = "nominatim"
    /\ \E o \in NominatimOutcomes :
        LET a == NominatimResult(o)
        IN /\ calls' = [ calls EXCEPT !.nominatim = @ + 1 ]
           /\ alt' = a
           /\ IF a.found
              THEN AfterGeocode([ out |-> a.out, err |-> "", via |-> "nominatim" ])
              ELSE AfterGeocode([ out |-> NoGeoOut, err |-> PrimaryFailure(primary_err),
                                  via |-> "none" ])
    /\ UNCHANGED << fixed, VOTES_CACHE, PROBE_CACHE, req, primary_err, collected, probe_i,
                    uniq_labels, stage, todo, attempt, sleeps, first_answer,
                    fetched, last_fetch, stdout >>

\* ------------------------------------------------------------------------
\* Point probes (app.py:258-277) and the overlay loops (app.py:550-572)
\* ------------------------------------------------------------------------
min_nh_lower == 2

retries == 3

delay == 4

\* variant: the loop gives up after its second call
GiveUp_Second(i) == i >= 1

\* variant: the loop gives up after its first call
GiveUp_First(i) == i >= 0

\* the test of app.py:199 on the loop variable
GiveUp(i) == i = retries

\* the argument of time.sleep (app.py:202)
Sleep(i) == delay + 2 * i

sldl_clean == sldl_to_openstates(geo.out.sldl_name)

ProbePoints ==
    _neighbors(geo.out.lat[1], geo.out.lon[1], PROBE_START_DEG, PROBE_STEP_DEG,
               PROBE_MAX_RINGS)

\* uniq_labels of app.py:568
UniqLabels(raw_people) ==
    { Strip(raw_people[i].district) :
        i \in { j \in DOMAIN raw_people : raw_people[j].district # << >> } }

\* variant: the loop is entered whenever the town has an entry
TownStage_Always(raw_people) ==
    LET town == geo.out.town
        uniq == UniqLabels(raw_people)
    IN IF town \in DOMAIN FLOTERIAL_MAP_TOWN /\ FLOTERIAL_MAP_TOWN[town] # << >>
       THEN [ pc |-> "fetch", stage |-> "town", todo |-> FLOTERIAL_MAP_TOWN[town],
              uniq |-> uniq ]
       ELSE [ pc |-> "finish", stage |-> "none", todo |-> << >>, uniq |-> uniq ]

\* the FALLBACK block (app.py:567-572): the loop over the town's floterials,
\* entered only while fewer than two district labels are in hand
TownStage(raw_people) ==
    LET town == geo.out.town
        uniq == UniqLabels(raw_people)
    IN IF /\ town \in DOMAIN FLOTERIAL_MAP_TOWN
          /\ Cardinality(uniq) < 2
          /\ FLOTERIAL_MAP_TOWN[town] # << >>
       THEN [ pc |-> "fetch", stage |-> "town", todo |-> FLOTERIAL_MAP_TOWN[town],
              uniq |-> uniq ]
       ELSE [ pc |-> "finish", stage |-> "none", todo |-> << >>, uniq |-> uniq ]

\* variant: the bases that list the base label are looped over as well
BaseStage_Inverse(raw_people) ==
    LET base_label == Strip(sldl_clean)
        forward == IF base_label \in DOMAIN FLOTERIAL_MAP_BASE
                   THEN FLOTERIAL_MAP_BASE[base_label] ELSE << >>
        inverse == { b \in DOMAIN FLOTERIAL_MAP_BASE :
                       base_label \in Range(FLOTERIAL_MAP_BASE[b]) }
        labels  == IF inverse = {} THEN forward
                   ELSE Append(forward, CHOOSE b \in inverse : TRUE)
    IN IF base_label # << >> /\ labels # << >>
       THEN [ pc |-> "fetch", stage |-> "base", todo |-> labels, uniq |-> {} ]
       ELSE TownStage(raw_people)

\* the PRIMARY block (app.py:561-565): the loop over the floterials listed
\* for the base label, then the FALLBACK block
BaseStage(raw_people) ==
    LET base_label == Strip(sldl_clean)
    IN IF /\ base_label # << >>
          /\ base_label \in DOMAIN FLOTERIAL_MAP_BASE
          /\ FLOTERIAL_MAP_BASE[base_label] # << >>
       THEN [ pc |-> "fetch", stage |-> "base",
              todo |-> FLOTERIAL_MAP_BASE[base_label], uniq |-> {} ]
       ELSE TownStage(raw_people)

\* one iteration of the loop of union_people_geo_statewide: probe(y, x), the
\* threshold test, and at the end of the loop app.py:550-563
\* variant: the loop never breaks before the last point
ProbeStop_AllRings(n, i) == i = Len(ProbePoints)

\* the loop of union_people_geo_statewide ends after point i: the break of
\* app.py:275-276, or _neighbors exhausted
ProbeStop(n, i) == n >= min_nh_lower \/ i = Len(ProbePoints)

probe ==
    /\ pc = "probe"
    /\ LET pt == ProbePoints[probe_i]
           outcome == IF pt \in DOMAIN PROBE_CACHE THEN "cached"
                      ELSE IF people_geo_up THEN "ok" ELSE "error"
       IN   LET res == IF outcome = "cached" THEN PROBE_CACHE[pt]
                       ELSE PeopleGeo(world, pt)
                col == IF outcome = "error" THEN collected
                       ELSE _ingest(collected, res)
                n   == Cardinality({ i \in DOMAIN col : IsNHLower(col[i]) })
                raw == _apply_county_hint(NHLowerOnly(col), sldl_clean)
                nxt == BaseStage(raw)
            IN /\ PROBE_CACHE' =
                     IF outcome = "ok"
                     THEN [ k \in DOMAIN PROBE_CACHE \cup { pt } |->
                              IF k = pt THEN res ELSE PROBE_CACHE[k] ]
                     ELSE PROBE_CACHE
               /\ calls' = IF outcome = "cached" THEN calls
                           ELSE [ calls EXCEPT !.people_geo = @ + 1 ]
               /\ IF ProbeStop(n, probe_i)
                  THEN /\ collected' = raw
                       /\ pc' = nxt.pc
                       /\ stage' = nxt.stage
                       /\ todo' = nxt.todo
                       /\ uniq_labels' = nxt.uniq
                       /\ probe_i' = probe_i
                  ELSE /\ collected' = col
                       /\ probe_i' = probe_i + 1
                       /\ UNCHANGED << pc, stage, todo, uniq_labels >>
    /\ UNCHANGED << fixed, VOTES_CACHE, req, geo, primary_err, alt,
                    people_geo_up, attempt,
                    sleeps, first_answer, fetched, last_fetch, stdout, response >>

\* how fetch_people_by_district answered: the rate limit branch of _get
\* (app.py:161-163), another error of _get, an empty result list, or data
AnswerKind(o) ==
    IF o.err = "429" THEN "429"
    ELSE IF o.err # "" THEN "error"
    ELSE IF o.data = << >> THEN "empty"
    ELSE "data"

\* one iteration of the loop of _fetch_district_retry for the label at the
\* head of the overlay loop; when it returns, _ingest of its result and the
\* next label, or the block after the loop
_fetch_district_retry ==
    /\ pc = "fetch"
    /\ LET label == Head(todo)
       IN \E o \in DirectoryOutcomes(label) :
            LET good   == o.err = "" /\ o.data # << >>
                giveup == ~good /\ GiveUp(attempt)
                first  == IF attempt = 0 THEN AnswerKind(o) ELSE first_answer
                col    == IF good THEN _ingest(collected, o.data) ELSE collected
                rest   == Tail(todo)
                nxt    == IF rest # << >>
                          THEN [ pc |-> "fetch", stage |-> stage, todo |-> rest,
                                 uniq |-> uniq_labels ]
                          ELSE IF stage = "base" THEN TownStage(col)
                          ELSE [ pc |-> "finish", stage |-> "none", todo |-> << >>,
                                 uniq |-> uniq_labels ]
            IN /\ IF good \/ giveup
                  THEN /\ collected' = col
                       /\ fetched' = fetched \cup
                              { [ label |-> label, stage |-> stage, ok |-> good ] }
                       /\ last_fetch' = [ label |-> label, calls |-> attempt + 1,
                                          sleeps |-> sleeps, ok |-> good,
                                          first |-> first ]
                       /\ stdout' = IF giveup THEN stdout \cup { label } ELSE stdout
                       /\ pc' = nxt.pc
                       /\ stage' = nxt.stage
                       /\ todo' = nxt.todo
                       /\ uniq_labels' = nxt.uniq
                       /\ attempt' = 0
                       /\ sleeps' = << >>
                       /\ first_answer' = ""
                  ELSE /\ sleeps' = Append(sleeps, Sleep(attempt))
                       /\ first_answer' = first
                       /\ attempt' = attempt + 1
                       /\ UNCHANGED << collected, fetched, last_fetch, stdout, pc, stage,
                                       todo, uniq_labels >>
    /\ UNCHANGED << fixed, VOTES_CACHE, PROBE_CACHE, req, geo, primary_err, alt,
                    probe_i, people_geo_up, calls, response >>

\* ------------------------------------------------------------------------
\* Votes sheet (app.py:368-472).  A parsed CSV row is the sequence of its
\* [col, cell] pairs in column order, keys and cells already stripped
\* (app.py:390).
\* ------------------------------------------------------------------------
\* re.sub(r"[^A-Za-z0-9\s]", "", s)
RECURSIVE KeepAlnumSpace(_)
KeepAlnumSpace(s) ==
    IF s = << >> THEN << >>
    ELSE IF IsAlpha(Head(s)) \/ IsDigit(Head(s)) \/ IsSpace(Head(s))
         THEN << Head(s) >> \o KeepAlnumSpace(Tail(s))
         ELSE KeepAlnumSpace(Tail(s))

_norm(s) == StrLower(Strip(CollapseWs(KeepAlnumSpace(s))))

\* Python's "want in nk" on strings
IsSubstring(want, nk) ==
    \E i \in 1 .. (Len(nk) - Len(want) + 1) :
        SubSeq(nk, i, i + Len(want) - 1) = want

\* norm_map of _pick_col: normalised column name -> column name, in order of
\* first insertion, a later column with the same normalised name replacing
\* the value
RECURSIVE NormMap(_, _)
NormMap(row, acc) ==
    IF row = << >> THEN acc
    ELSE LET k  == Head(row).col
             nk == _norm(k)
         IN IF \E i \in DOMAIN acc : acc[i].nk = nk
            THEN NormMap(Tail(row),
                         [ i \in DOMAIN acc |->
                             IF acc[i].nk = nk THEN [ nk |-> nk, original |-> k ]
                             ELSE acc[i] ])
            ELSE NormMap(Tail(row), Append(acc, [ nk |-> nk, original |-> k ]))

\* the column picked, << >> for None
PickFrom(norm_map, candidates) ==
    LET exact == { c \in DOMAIN candidates :
                     \E i \in DOMAIN norm_map : norm_map[i].nk = candidates[c] }
        part  == { i \in DOMAIN norm_map :
                     \E c \in DOMAIN candidates :
                        IsSubstring(candidates[c], norm_map[i].nk) }
        Min(S) == CHOOSE x \in S : \A y \in S : x <= y
    IN IF exact # {}
       THEN LET want == candidates[Min(exact)]
            IN norm_map[CHOOSE i \in DOMAIN norm_map : norm_map[i].nk = want].original
       ELSE IF part # {} THEN norm_map[Min(part)].original
       ELSE << >>

_pick_col(row, candidates) == PickFrom(NormMap(row, << >>), candidates)

\* row.get(col, ""): with duplicate column names the last cell wins
RowGet(row, col) ==
    LET hits == { i \in DOMAIN row : row[i].col = col }
    IN IF hits = {} THEN << >>
       ELSE row[CHOOSE i \in hits : \A j \in hits : j <= i].cell

RECURSIVE LStripDigits(_)
LStripDigits(s) == IF s # << >> /\ IsDigit(Head(s)) THEN LStripDigits(Tail(s)) ELSE s

\* re.findall(r"\d+", s)[0], << >> when there is no digit
RECURSIVE FirstDigits(_)
FirstDigits(s) ==
    IF s = << >> THEN << >>
    ELSE IF IsDigit(Head(s))
         THEN LET n == Len(s) - Len(LStripDigits(s)) IN SubSeq(s, 1, n)
         ELSE FirstDigits(Tail(s))

RECURSIVE LettersOnly(_)
LettersOnly(s) ==
    IF s = << >> THEN << >>
    ELSE IF IsLowerCh(Head(s)) THEN << Head(s) >> \o LettersOnly(Tail(s))
    ELSE LettersOnly(Tail(s))

Prefix3(s) == SubSeq(s, 1, IF Len(s) < 3 THEN Len(s) ELSE 3)

_district_equiv(a, b) ==
    LET an == _norm(a)
        bn == _norm(b)
        ad == FirstDigits(an)
        bd == FirstDigits(bn)
        aletters == LettersOnly(an)
        bletters == LettersOnly(bn)
    IN IF an = bn THEN TRUE
       ELSE IF ad = << >> \/ bd = << >> \/ ad # bd THEN FALSE
       ELSE IF aletters = << >> \/ bletters = << >> THEN TRUE
       ELSE Prefix3(aletters) = Prefix3(bletters)

id_candidates ==
    << << "o", "p", "e", "n", "s", "t", "a", "t", "e", "s", "_", "p", "e", "r", "s", "o", "n", "_", "i", "d" >>,
       << "o", "p", "e", "n", "s", "t", "a", "t", "e", "s", "_", "i", "d" >>,
       << "p", "e", "r", "s", "o", "n", "_", "i", "d" >>,
       << "o", "p", "e", "n", "s", "t", "a", "t", "e", "s", " ", "i", "d" >>,
       << "o", "s", " ", "i", "d" >> >>

name_candidates ==
    << << "n", "a", "m", "e" >>,
       << "f", "u", "l", "l", " ", "n", "a", "m", "e" >>,
       << "r", "e", "p", "r", "e", "s", "e", "n", "t", "a", "t", "i", "v", "e" >>,
       << "r", "e", "p", "r", "e", "s", "e", "n", "t", "a", "t", "i", "v", "e", " ", "n", "a", "m", "e" >>,
       << "m", "e", "m", "b", "e", "r" >>,
       << "r", "e", "p" >> >>

dist_candidates ==
    << << "d", "i", "s", "t", "r", "i", "c", "t" >>,
       << "d", "i", "s", "t", "r", "i", "c", "t", " ", "l", "a", "b", "e", "l" >>,
       << "h", "o", "u", "s", "e", " ", "d", "i", "s", "t", "r", "i", "c", "t" >>,
       << "s", "t", "a", "t", "e", " ", "h", "o", "u", "s", "e", " ", "d", "i", "s", "t", "r", "i", "c", "t" >>,
       << "s", "l", "d", "l" >>,
       << "s", "l", "d", "l", " ", "n", "a", "m", "e" >>,
       << "s", "l", "d", "l", " ", "l", "a", "b", "e", "l" >> >>

\* whether the first loop of _match_row_for_rep returns row r
IdMatches(r, person_id) ==
    LET norm_map == NormMap(r, << >>)
    IN \E c \in DOMAIN id_candidates :
         LET col == PickFrom(norm_map, << id_candidates[c] >>)
             pid == Strip(RowGet(r, col))
         IN col # << >> /\ pid # << >> /\ person_id # << >> /\ pid = person_id

NameHit(r, name_n) ==
    LET ncol == _pick_col(r, name_candidates)
        rname_n == _norm(RowGet(r, ncol))
    IN /\ ncol # << >>
       /\ (rname_n = name_n \/ (name_n # << >> /\ IsSubstring(name_n, rname_n)))

DistrictHit(r, district) ==
    LET dcol == _pick_col(r, dist_candidates)
    IN dcol # << >> /\ _district_equiv(RowGet(r, dcol), district)

\* the row matched, << >> for None
_match_row_for_rep(rows, person_id, name, district) ==
    LET name_n == _norm(name)
        district_n == _norm(district)
        by_id == { i \in DOMAIN rows : IdMatches(rows[i], person_id) }
        name_hits == SelectSeq2(rows, { rows[i] : i \in
                        { j \in DOMAIN rows : NameHit(rows[j], name_n) } })
        by_dist == { i \in DOMAIN name_hits : DistrictHit(name_hits[i], district) }
        Min(S) == CHOOSE x \in S : \A y \in S : x <= y
    IN IF by_id # {} THEN rows[Min(by_id)]
       ELSE IF name_hits = << >> THEN << >>
       ELSE IF district_n # << >> /\ by_dist # {} THEN name_hits[Min(by_dist)]
       ELSE IF Len(name_hits) = 1 THEN name_hits[1]
       ELSE << >>

meta ==
    << << "o", "p", "e", "n", "s", "t", "a", "t", "e", "s", "_", "p", "e", "r", "s", "o", "n", "_", "i", "d" >>,
       << "o", "p", "e", "n", "s", "t", "a", "t", "e", "s", "_", "i", "d" >>,
       << "p", "e", "r", "s", "o", "n", "_", "i", "d" >>,
       << "o", "s", " ", "i", "d" >>,
       << "n", "a", "m", "e" >>,
       << "f", "u", "l", "l", " ", "n", "a", "m", "e" >>,
       << "r", "e", "p", "r", "e", "s", "e", "n", "t", "a", "t", "i", "v", "e" >>,
       << "r", "e", "p", "r", "e", "s", "e", "n", "t", "a", "t", "i", "v", "e", " ", "n", "a", "m", "e" >>,
       << "m", "e", "m", "b", "e", "r" >>,
       << "r", "e", "p" >>,
       << "d", "i", "s", "t", "r", "i", "c", "t" >>,
       << "d", "i", "s", "t", "r", "i", "c", "t", " ", "l", "a", "b", "e", "l" >>,
       << "h", "o", "u", "s", "e", " ", "d", "i", "s", "t", "r", "i", "c", "t" >>,
       << "s", "t", "a", "t", "e", " ", "h", "o", "u", "s", "e", " ", "d", "i", "s", "t", "r", "i", "c", "t" >>,
       << "s", "l", "d", "l" >>,
       << "s", "l", "d", "l", " ", "n", "a", "m", "e" >>,
       << "s", "l", "d", "l", " ", "l", "a", "b", "e", "l" >>,
       << "p", "a", "r", "t", "y" >>,
       << "t", "o", "w", "n" >>,
       << "c", "o", "u", "n", "t", "y" >> >>

meta_norm == { _norm(meta[i]) : i \in DOMAIN meta }

RECURSIVE _row_to_vote_list(_)
_row_to_vote_list(row) ==
    IF row = << >> THEN << >>
    ELSE LET k == Head(row).col
             v == Head(row).cell
         IN IF k = << >> \/ _norm(k) \in meta_norm \/ Strip(v) = << >>
            THEN _row_to_vote_list(Tail(row))
            ELSE << [ bill |-> Strip(k), vote |-> Strip(v) ] >>
                 \o _row_to_vote_list(Tail(row))

\* what one read of the votes CSV source can give: an error, an HTML page,
\* or CSV text, here already parsed into rows
VotesRows ==
    << << [ col |-> << "O", "p", "e", "n", "S", "t", "a", "t", "e", "s", " ", "I", "D" >>, cell |-> << "p", "1" >> ],
          [ col |-> << "N", "a", "m", "e" >>, cell |-> Ann ],
          [ col |-> << "D", "i", "s", "t", "r", "i", "c", "t" >>, cell |-> Sullivan2 ],
          [ col |-> << "H", "B", " ", "1" >>, cell |-> << "Y" >> ],
          [ col |-> << "H", "B", " ", "2" >>, cell |-> << >> ] >>,
       << [ col |-> << "O", "p", "e", "n", "S", "t", "a", "t", "e", "s", " ", "I", "D" >>, cell |-> << >> ],
          [ col |-> << "N", "a", "m", "e" >>, cell |-> Bob ],
          [ col |-> << "D", "i", "s", "t", "r", "i", "c", "t" >>, cell |-> Sullivan10 ],
          [ col |-> << "H", "B", " ", "1" >>, cell |-> << "N", "a", "y" >> ],
          [ col |-> << "H", "B", " ", "2" >>, cell |-> << "F", "o", "r" >> ] >> >>

VotesOutcomes ==
    { [ kind |-> "error", rows |-> << >> ], [ kind |-> "html", rows |-> << >> ],
      [ kind |-> "csv", rows |-> VotesRows ], [ kind |-> "csv", rows |-> << >> ] }

\* the URLs _fetch_votes_rows tries: with the default configuration only the
\* primary one, _alt_csv_urls adding none (app.py:318-331)
tried == << "primary" >>

\* the first URL whose read gives CSV, 0 when none does
FirstCsv(outs) ==
    IF \E i \in DOMAIN outs : outs[i].kind = "csv"
    THEN CHOOSE i \in DOMAIN outs :
            outs[i].kind = "csv" /\ \A j \in 1 .. (i - 1) : outs[j].kind # "csv"
    ELSE 0

VotesError(kind) ==
    IF kind = "html"
    THEN "Votes CSV URL returned HTML (fix sharing or use published CSV)."
    ELSE "Votes CSV fetch error"

\* _fetch_votes_rows when it does not answer from the cache, the reads of the
\* tried URLs giving outs: [rows, err, cache, reads]
FetchVotes(outs) ==
    LET i == FirstCsv(outs)
    IN IF i # 0
       THEN [ rows |-> outs[i].rows, err |-> "",
              cache |-> [ rows |-> outs[i].rows, src |-> tried[i] ], reads |-> i ]
       ELSE [ rows |-> << >>, err |-> VotesError(outs[Len(outs)].kind),
              cache |-> VOTES_CACHE, reads |-> Len(outs) ]

\* the votes attached to one representative (app.py:591-595)
WithVotes(r, rows, verr) ==
    LET row == IF verr = "" 
               THEN _match_row_for_rep(rows, r.id, r.name, r.district)
               ELSE << >>
    IN [ id |-> r.id, name |-> r.name, district |-> r.district,
         votes |-> _row_to_vote_list(row) ]

\* the tail of _lookup_core (app.py:574-616)
SuccessResponse(reps) ==
    [ status |-> 200, success |-> TRUE, message |-> "",
      data |-> [ formattedAddress |-> geo.out.formattedAddress,
                 inputAddress |-> req.address,
                 stateRepresentatives |-> reps,
                 geographies |-> [ sldl |-> geo.out.sldl_name ] ] ]

VotesResponse(reps, src, verr) ==
    [ status |-> 200, success |-> TRUE, message |-> "",
      data |-> [ formattedAddress |-> geo.out.formattedAddress,
                 inputAddress |-> req.address,
                 stateRepresentatives |-> reps,
                 geographies |-> [ sldl |-> geo.out.sldl_name ],
                 votesSource |-> src,
                 votesError |-> verr ] ]

_lookup_core_finish ==
    /\ pc = "finish"
    /\ LET raw  == NHLowerOnly(collected)
           reps == Reps(raw, sldl_clean)
       IN /\ collected' = raw
          /\ IF ~req.include_votes
             THEN /\ response' = SuccessResponse(reps)
                  /\ UNCHANGED << VOTES_CACHE, calls >>
             ELSE \E got \in
                      \* the cache answers while it is fresh (app.py:370) ...
                      { [ rows |-> VOTES_CACHE.rows, err |-> "", cache |-> VOTES_CACHE,
                          reads |-> 0 ] :
                          fresh \in IF ~req.refresh_votes /\ VOTES_CACHE.rows # << >>
                                    THEN { TRUE } ELSE {} }
                      \* ... and the source is read otherwise
                      \cup { FetchVotes(outs) :
                               outs \in [ DOMAIN tried -> VotesOutcomes ] } :
                    /\ VOTES_CACHE' = got.cache
                    /\ calls' = [ calls EXCEPT !.votes = @ + got.reads ]
                    /\ response' = VotesResponse(
                           [ i \in DOMAIN reps |-> WithVotes(reps[i], got.rows, got.err) ],
                           got.cache.src, got.err)
    /\ pc' = "idle"
    /\ UNCHANGED << fixed, PROBE_CACHE, req, geo, primary_err, alt, probe_i,
                    people_geo_up, uniq_labels, stage, todo, attempt, sleeps, first_answer, fetched,
                    last_fetch, stdout >>

\* ------------------------------------------------------------------------
\* utils/geocode.py: the Nominatim-only geocoder
\* ------------------------------------------------------------------------
\* attempts holds five structured and five free-form parameter sets
AttemptCount == 10

\* range(6) in _req
ReqTries == 6

\* what one request of _req can meet: status 200 with a JSON array, one of
\* the statuses 429/502/503/504, any other status, or an exception raised by
\* requests.get
UtilsOutcomes ==
    { [ kind |-> k, res |-> << >> ] : k \in { "200", "busy", "status", "exception" } }
    \cup { [ kind |-> "200", res |-> << r >> ] : r \in NominatimRecords }

\* geocode_address up to its first request: the empty-address check
utils_geocode_address ==
    /\ program = "utils"
    /\ u_pc = "idle"
    /\ \E raw \in Addresses :
        LET address == Strip(raw)
        IN /\ u_address' = address
           /\ IF address = << >>
              THEN /\ u_result' = [ NoResult EXCEPT !.kind = "raised",
                                                    !.err = "Empty address" ]
                   /\ u_pc' = "idle"
              ELSE /\ u_result' = NoResult
                   /\ u_pc' = "req"
    /\ u_attempt' = 1
    /\ u_try' = 0
    /\ u_delay' = 1
    /\ u_last_err' = ""
    /\ u_calls' = 0
    /\ UNCHANGED << program, app_vars, label_vars, export_vars >>

\* the loop over attempts once the attempt in progress has ended with error
\* e ("" when _req returned an empty array)
UtilsNextAttempt(e) ==
    LET last == IF e = "" THEN u_last_err ELSE e
    IN /\ u_last_err' = last
       /\ u_try' = 0
       /\ u_delay' = 1
       /\ IF u_attempt = AttemptCount
          THEN /\ u_result' = [ NoResult EXCEPT !.kind = "raised",
                    !.err = "All Nominatim attempts returned empty." ]
               /\ u_pc' = "idle"
               /\ u_attempt' = u_attempt
          ELSE /\ u_attempt' = u_attempt + 1
               /\ UNCHANGED << u_result, u_pc >>

\* one request of _req and what follows its answer
_req ==
    /\ program = "utils"
    /\ u_pc = "req"
    /\ u_calls' = u_calls + 1
    /\ u_address' = u_address
    /\ \E o \in UtilsOutcomes :
        CASE o.kind = "200" /\ o.res # << >> ->
               IF o.res[1].lat # << >> /\ o.res[1].lon # << >>
               THEN /\ u_result' = [ kind |-> "ok", lat |-> o.res[1].lat,
                                     lon |-> o.res[1].lon, err |-> "" ]
                    /\ u_pc' = "idle"
                    /\ UNCHANGED << u_attempt, u_try, u_delay, u_last_err >>
               ELSE UtilsNextAttempt("KeyError")
          [] o.kind = "200" /\ o.res = << >> -> UtilsNextAttempt("")
          [] o.kind = "busy" ->
               IF u_try + 1 = ReqTries
               THEN UtilsNextAttempt("Nominatim: exhausted retries")
               ELSE /\ u_try' = u_try + 1
                    /\ u_delay' = IF u_delay * 2 < 8 THEN u_delay * 2 ELSE 8
                    /\ UNCHANGED << u_attempt, u_last_err, u_result, u_pc >>
          [] o.kind = "status" -> UtilsNextAttempt("Nominatim HTTP")
          [] o.kind = "exception" -> UtilsNextAttempt("RequestException")
    /\ UNCHANGED << program, app_vars, label_vars, export_vars >>

\* ------------------------------------------------------------------------
\* sldl_to_openstates on its own (app.py:79-83)
\* ------------------------------------------------------------------------
MaxLabelLen == 5

\* an upper-case and a lower-case letter, zero, another digit, a space
LabelAlphabet == { "S", "u", "0", "2", " " }

RECURSIVE StringsUpTo(_, _)
StringsUpTo(alphabet, n) ==
    IF n = 0 THEN { << >> }
    ELSE LET shorter == StringsUpTo(alphabet, n - 1)
         IN shorter \cup { Append(w, c) : w \in shorter, c \in alphabet }

\* spellings of the district Sullivan 2, and longer names as the Census
\* geocoder gives them
Spellings ==
    { << "S", "u", "l", "l", "i", "v", "a", "n", " ", "0", "2" >>,
      << "S", "U", "2" >>,
      << "s", "u", "0", "2" >>,
      << "S", "u", "l", "l", "i", "v", "a", "n", " ", " ", "2" >> }

LongNames ==
    { << "D", "i", "s", "t", "r", "i", "c", "t", " ", "S", "u", "l", "l", "i", "v", "a", "n", " ", "0", "2" >>,
      << "S", "u", "l", "l", "i", "v", "a", "n", " ", "0", "0" >>,
      << " ", "S", "u", "l", "l", "i", "v", "a", "n", " ", "C", "o", "u", "n", "t", "y", " " >> }

LabelInputs == Spellings \cup LongNames \cup StringsUpTo(LabelAlphabet, MaxLabelLen)

InitLabels ==
    /\ program = "labels"
    /\ NoDeployment
    /\ pc = "idle"
    /\ Quiet
    /\ district_index = NoIndex
    /\ NoExport
    /\ label_in \in LabelInputs
    /\ label_out = << >>

\* a call of sldl_to_openstates: on the name first, then on its own result
sldl_to_openstates_call ==
    /\ program = "labels"
    /\ Len(label_out) < 2
    /\ label_out' = Append(label_out,
                           sldl_to_openstates(IF label_out = << >> THEN label_in
                                              ELSE label_out[Len(label_out)]))
    /\ UNCHANGED << program, app_vars, utils_vars, export_vars, label_in >>

NextLabels == sldl_to_openstates_call

SpecLabels == InitLabels /\ [][NextLabels]_vars

\* ------------------------------------------------------------------------
\* The loaders at import (app.py:520-521) and /debug/floterials
\* (app.py:686-694) on their own
\* ------------------------------------------------------------------------
MaxRows == 3

\* rows of floterial_by_base.csv: valid ones, two of them giving the same
\* pair in different spellings, and rows lacking the base cell, the
\* floterial cell, or any floterial between the separators
BaseRowKinds ==
    { [ NoRow EXCEPT !.base_label = << "s", "u", "l", "l", "i", "v", "a", "n", " ", " ", "2" >>,
                     !.floterials = << "S", "u", "l", "l", "i", "v", "a", "n", " ", "1", "0", ";", " ", "S", "u", "l", "l", "i", "v", "a", "n", " ", " ", "7", ";" >> ],
      [ NoRow EXCEPT !.base = Sullivan2, !.floterial = Sullivan10 ],
      [ NoRow EXCEPT !.base = Sullivan10, !.floterial = Sullivan7 ],
      [ NoRow EXCEPT !.floterials = Sullivan7 ],
      [ NoRow EXCEPT !.base_label = Sullivan7 ],
      [ NoRow EXCEPT !.base = Sullivan7, !.floterials = << " ", ";", " " >> ] }

RECURSIVE RowsUpTo(_, _)
RowsUpTo(kinds, n) ==
    IF n = 0 THEN { << >> }
    ELSE LET shorter == RowsUpTo(kinds, n - 1)
         IN shorter \cup { Append(w, r) : w \in shorter, r \in kinds }

\* the module before lines 520-521 have run: both tables as declared at
\* app.py:53-54
InitLoader ==
    /\ program = "loader"
    /\ \E rows \in RowsUpTo(BaseRowKinds, MaxRows) :
          csv_files = [ town |-> NoFile, base |-> [ exists |-> TRUE, rows |-> rows ] ]
    /\ OPENSTATES_API_KEY = TRUE
    /\ NOMINATIM_FALLBACK = TRUE
    /\ FLOTERIAL_MAP_TOWN = EmptyDict
    /\ FLOTERIAL_MAP_BASE = EmptyDict
    /\ world = "split"
    /\ pc = "import"
    /\ Quiet
    /\ district_index = NoIndex
    /\ NoExport
    /\ label_in = << >>
    /\ label_out = << >>

\* app.py:520-521
load_maps ==
    /\ program = "loader"
    /\ pc = "import"
    /\ FLOTERIAL_MAP_TOWN' = _load_town_map(csv_files.town)
    /\ FLOTERIAL_MAP_BASE' = _load_base_map(csv_files.base)
    /\ pc' = "idle"
    /\ UNCHANGED << program, utils_vars, label_vars, export_vars, district_vars, csv_files,
                    debug_report,
                    csv_source, OPENSTATES_API_KEY, NOMINATIM_FALLBACK, world, PROBE_CACHE,
                    VOTES_CACHE, req, geo, primary_err, alt, collected, probe_i,
                    people_geo_up, uniq_labels, stage, todo, attempt, sleeps,
                    first_answer, fetched, last_fetch, calls, stdout, response >>

\* sum(len(v) for v in d.values())
RECURSIVE SumLen(_, _)
SumLen(d, keys) ==
    IF keys = {} THEN 0
    ELSE LET k == CHOOSE x \in keys : TRUE
         IN Len(d[k]) + SumLen(d, keys \ { k })

debug_floterials ==
    /\ program = "loader"
    /\ pc = "idle"
    /\ debug_report' =
          [ by_town_count |-> SumLen(FLOTERIAL_MAP_TOWN, DOMAIN FLOTERIAL_MAP_TOWN),
            by_base_count |-> SumLen(FLOTERIAL_MAP_BASE, DOMAIN FLOTERIAL_MAP_BASE),
            reported |-> TRUE ]
    /\ UNCHANGED << program, utils_vars, label_vars, export_vars, district_vars, csv_files,
                    csv_source,
                    OPENSTATES_API_KEY,
                    NOMINATIM_FALLBACK, FLOTERIAL_MAP_TOWN, FLOTERIAL_MAP_BASE,
                    world, PROBE_CACHE, VOTES_CACHE, pc, req, geo, primary_err, alt,
                    collected, probe_i, people_geo_up, uniq_labels, stage, todo,
                    attempt, sleeps, first_answer, fetched, last_fetch, calls,
                    stdout, response >>

\* what the loaders' caller leaves alone once the module is imported:
\* nothing in app.py assigns the two tables after lines 520-521
loaded == << program, utils_vars, label_vars, export_vars, district_vars, csv_files, debug_report,
            OPENSTATES_API_KEY, NOMINATIM_FALLBACK, FLOTERIAL_MAP_TOWN,
            FLOTERIAL_MAP_BASE, world, PROBE_CACHE, VOTES_CACHE, pc, req, geo,
            primary_err, alt, collected, probe_i, people_geo_up, uniq_labels,
            stage, todo, attempt, sleeps, first_answer, fetched, last_fetch,
            calls, stdout, response >>

\* the environment: floterial_by_base.csv is saved again without its first
\* row while the process runs
csv_rewritten ==
    /\ program = "loader"
    /\ pc = "idle"
    /\ csv_source.base.rows # << >>
    /\ csv_source' = [ csv_source EXCEPT !.base.rows = Tail(@), !.aged = FALSE ]
    /\ UNCHANGED loaded

\* the environment: time passes, more than any time-to-live, with the
\* files untouched
ttl_elapses ==
    /\ program = "loader"
    /\ ~csv_source.aged
    /\ csv_source' = [ csv_source EXCEPT !.aged = TRUE ]
    /\ UNCHANGED loaded

NextLoader == load_maps \/ debug_floterials \/ csv_rewritten \/ ttl_elapses

SpecLoader == InitLoader /\ [][NextLoader]_vars

\* ------------------------------------------------------------------------
\* utils/districts.py: point in polygon and DistrictIndex
\* ------------------------------------------------------------------------
\* a vertex is << x, y >>, that is << lon, lat >>. x_int > lon of
\* districts.py:22-23 for an edge that straddles the ray, in integers:
\* (x2 - x1) * (lat - y1) / (y2 - y1) + x1 > lon, the division cleared by
\* the sign of y2 - y1; for the rings and points modelled, all with small
\* integer coordinates, the term 1e-15 changes no comparison
CrossesRight(x1, y1, x2, y2, lon, lat) ==
    LET num == (x2 - x1) * (lat - y1)
        rhs == (lon - x1) * (y2 - y1)
    IN IF y2 > y1 THEN num > rhs ELSE num < rhs

\* the loop of _point_in_ring from edge i on (districts.py:15-25)
RECURSIVE RingLoop(_, _, _, _, _)
RingLoop(lon, lat, ring, i, inside) ==
    IF i > Len(ring) THEN inside
    ELSE LET a    == ring[i]
             b    == ring[(i % Len(ring)) + 1]
             cond == (a[2] > lat) # (b[2] > lat)
         IN RingLoop(lon, lat, ring, i + 1,
                     IF cond /\ CrossesRight(a[1], a[2], b[1], b[2], lon, lat)
                     THEN ~inside ELSE inside)

_point_in_ring(lon, lat, ring) ==
    IF Len(ring) < 3 THEN FALSE ELSE RingLoop(lon, lat, ring, 1, FALSE)

\* the loop over coords[1:] (districts.py:34-37)
RECURSIVE HolesLoop(_, _, _)
HolesLoop(lon, lat, holes) ==
    IF holes = << >> THEN TRUE
    ELSE IF _point_in_ring(lon, lat, Head(holes)) THEN FALSE
    ELSE HolesLoop(lon, lat, Tail(holes))

\* variant: the hole rings are not looked at
_point_in_polygon_NoHoles(lon, lat, coords) ==
    IF coords = << >> THEN FALSE
    ELSE _point_in_ring(lon, lat, coords[1])

_point_in_polygon(lon, lat, coords) ==
    IF coords = << >> THEN FALSE
    ELSE IF ~_point_in_ring(lon, lat, coords[1]) THEN FALSE
    ELSE HolesLoop(lon, lat, Tail(coords))

RECURSIVE _point_in_multipolygon(_, _, _)
_point_in_multipolygon(lon, lat, mcoords) ==
    IF mcoords = << >> THEN FALSE
    ELSE IF _point_in_polygon(lon, lat, Head(mcoords)) THEN TRUE
    ELSE _point_in_multipolygon(lon, lat, Tail(mcoords))

\* str.replace(" 0", " ")
RECURSIVE ReplaceSpaceZero(_)
ReplaceSpaceZero(s) ==
    IF s = << >> THEN << >>
    ELSE IF Len(s) >= 2 /\ s[1] = " " /\ s[2] = "0"
    THEN << " " >> \o ReplaceSpaceZero(SubSeq(s, 3, Len(s)))
    ELSE << s[1] >> \o ReplaceSpaceZero(Tail(s))

\* _coerce_label for properties holding, of the keys it reads, "district",
\* "county" and "district_n"; an absent key is the empty string, and
\* << >> stands for None
_coerce_label(props) ==
    IF Strip(props.district) # << >>
    THEN ReplaceSpaceZero(Strip(props.district))
    ELSE LET county == StrTitle(Strip(props.county))
             num    == IF AllDigits(Strip(props.district_n))
                       THEN StripZeros(Strip(props.district_n))
                       ELSE Strip(props.district_n)
         IN IF props.county # << >> /\ county # << >>
               /\ props.district_n # << >> /\ num # << >>
            THEN county \o << " " >> \o num
            ELSE << >>

UNKNOWN == << "U", "N", "K", "N", "O", "W", "N" >>

\* DistrictIndex.__init__ (districts.py:89-100)
RECURSIVE DistrictIndex(_)
DistrictIndex(fs) ==
    IF fs = << >> THEN << >>
    ELSE LET f     == Head(fs)
             label == Or(_coerce_label(f.properties), UNKNOWN)
         IN IF f.type = "" \/ ~f.has_coordinates
            THEN DistrictIndex(Tail(fs))
            ELSE << [ gtype |-> f.type, coords |-> f.coordinates,
                      label |-> label, props |-> f.properties ] >>
                 \o DistrictIndex(Tail(fs))

\* DistrictIndex.find (districts.py:109-118): None is << >>
RECURSIVE find(_, _, _)
find(its, lat, lon) ==
    IF its = << >> THEN << >>
    ELSE LET it == Head(its)
         IN IF it.gtype = "Polygon" /\ _point_in_polygon(lon, lat, it.coords)
            THEN << it.label, it.props >>
            ELSE IF it.gtype = "MultiPolygon"
                    /\ _point_in_multipolygon(lon, lat, it.coords)
            THEN << it.label, it.props >>
            ELSE find(Tail(its), lat, lon)

\* the GeoJSON features modelled: closed rings with integer vertices
Square(x, y, side) ==
    << << x, y >>, << x + side, y >>, << x + side, y + side >>,
       << x, y + side >>, << x, y >> >>

NoProps == [ district |-> << >>, county |-> << >>, district_n |-> << >> ]

Features ==
    { \* a square with a square hole
      [ type |-> "Polygon", has_coordinates |-> TRUE,
        coordinates |-> << Square(0, 0, 4), Square(1, 1, 2) >>,
        properties |-> [ NoProps EXCEPT !.district =
            << " ", "S", "u", "l", "l", "i", "v", "a", "n", " ", "0", "2" >> ] ],
      \* the square filling that hole
      [ type |-> "Polygon", has_coordinates |-> TRUE,
        coordinates |-> << Square(1, 1, 2) >>,
        properties |-> [ NoProps EXCEPT !.district = Sullivan7 ] ],
      \* two pieces, a square with a hole and a triangle
      [ type |-> "MultiPolygon", has_coordinates |-> TRUE,
        coordinates |-> << << Square(4, 0, 4), Square(5, 1, 2) >>,
                           << << << 0, 4 >>, << 4, 4 >>, << 4, 6 >>, << 0, 4 >> >> >> >>,
        properties |-> [ NoProps EXCEPT !.county = << "s", "u", "l", "l", "i", "v", "a", "n" >>,
                                        !.district_n = << "0", "1", "0" >> ] ],
      \* a square over the first one's corner, without any label property
      [ type |-> "Polygon", has_coordinates |-> TRUE,
        coordinates |-> << Square(0, 0, 2) >>,
        properties |-> NoProps ],
      \* a geometry find does not handle
      [ type |-> "Point", has_coordinates |-> TRUE,
        coordinates |-> << 2, 2 >>,
        properties |-> [ NoProps EXCEPT !.district = Sullivan10 ] ],
      \* a feature without geometry
      [ type |-> "", has_coordinates |-> FALSE,
        coordinates |-> << >>,
        properties |-> [ NoProps EXCEPT !.district = Sullivan2 ] ] }

MaxFeatures == 2

MaxCoord == 7

RECURSIVE FeatureLists(_)
FeatureLists(n) ==
    IF n = 0 THEN { << >> }
    ELSE LET shorter == FeatureLists(n - 1)
         IN shorter \cup { Append(w, f) : w \in shorter, f \in Features }

InitDistricts ==
    /\ program = "districts"
    /\ NoDeployment
    /\ pc = "idle"
    /\ Quiet
    /\ \E fs \in FeatureLists(MaxFeatures) :
          district_index = [ NoIndex EXCEPT !.features = fs ]
    /\ NoExport
    /\ label_in = << >>
    /\ label_out = << >>

DistrictIndex_init ==
    /\ program = "districts"
    /\ ~district_index.constructed
    /\ district_index' = [ district_index EXCEPT
                             !._items = DistrictIndex(district_index.features),
                             !.constructed = TRUE ]
    /\ UNCHANGED << program, utils_vars, label_vars, export_vars, find_call, csv_files,
                    debug_report, csv_source, OPENSTATES_API_KEY,
                    NOMINATIM_FALLBACK, FLOTERIAL_MAP_TOWN, FLOTERIAL_MAP_BASE,
                    world, PROBE_CACHE, VOTES_CACHE, pc, req, geo, primary_err,
                    alt, collected, probe_i, people_geo_up, uniq_labels, stage,
                    todo, attempt, sleeps, first_answer, fetched, last_fetch,
                    calls, stdout, response >>

DistrictIndex_find ==
    /\ program = "districts"
    /\ district_index.constructed
    /\ \E lat \in 0 .. MaxCoord, lon \in 0 .. MaxCoord :
          find_call' = [ called |-> TRUE, lat |-> lat, lon |-> lon,
                         result |-> find(district_index._items, lat, lon) ]
    /\ UNCHANGED << program, utils_vars, label_vars, export_vars, district_index, csv_files,
                    debug_report, csv_source, OPENSTATES_API_KEY,
                    NOMINATIM_FALLBACK, FLOTERIAL_MAP_TOWN, FLOTERIAL_MAP_BASE,
                    world, PROBE_CACHE, VOTES_CACHE, pc, req, geo, primary_err,
                    alt, collected, probe_i, people_geo_up, uniq_labels, stage,
                    todo, attempt, sleeps, first_answer, fetched, last_fetch,
                    calls, stdout, response >>

NextDistricts == DistrictIndex_init \/ DistrictIndex_find

SpecDistricts == InitDistricts /\ [][NextDistricts]_vars

\* ------------------------------------------------------------------------
\* export_nh_house_ids.py
\* ------------------------------------------------------------------------
max_retries == 6

per_page == 50

MaxPages == 2

MaxRequests == 8

\* a file left by an earlier run
OldFile == [ exists |-> TRUE, rows |-> << "header", [ page |-> 0, count |-> 1 ] >> ]

\* the number of results /people returns for a page
PageCount(p) ==
    IF p <= people_pages.full THEN per_page
    ELSE IF p = people_pages.full + 1 THEN people_pages.last
    ELSE 0

\* one answer to sess.get: a transport failure, 429 with its Retry-After,
\* another error status, or 200 with the page
Answers == { "net", "429", "5xx", "200" }

InitExport ==
    /\ program = "export"
    /\ csv_files = [ town |-> NoFile, base |-> NoFile ]
    /\ OPENSTATES_API_KEY \in BOOLEAN
    /\ NOMINATIM_FALLBACK = TRUE
    /\ FLOTERIAL_MAP_TOWN = EmptyDict
    /\ FLOTERIAL_MAP_BASE = EmptyDict
    /\ world = "split"
    /\ pc = "idle"
    /\ Quiet
    /\ district_index = NoIndex
    /\ people_pages \in [ full : 0 .. MaxPages, last : { 0, 7 } ]
    /\ x_pc = "idle"
    /\ x_page = 1
    /\ x_attempt = 0
    /\ x_total = 0
    /\ out_part \in { Absent, OldFile }
    /\ out_final \in { Absent, OldFile }
    /\ out_before = out_final
    /\ label_in = << >>
    /\ label_out = << >>

not_export == << program, app_vars, utils_vars, label_vars >>

\* main up to the first call of fetch_page (export_nh_house_ids.py:69-93):
\* die without the key, else open out_part for writing and write the header
main ==
    /\ program = "export"
    /\ x_pc = "idle"
    /\ IF ~OPENSTATES_API_KEY
       THEN /\ x_pc' = "died"
            /\ UNCHANGED out_part
       ELSE /\ x_pc' = "fetch"
            /\ out_part' = [ exists |-> TRUE, rows |-> << "header" >> ]
    /\ UNCHANGED << not_export, people_pages, x_page, x_attempt, x_total,
                    out_final, out_before >>

\* variant: the final path is replaced on the way out of a failed run too
Propagate_Finally ==
    /\ x_pc' = "raised"
    /\ out_final' = out_part
    /\ out_part' = Absent
    /\ UNCHANGED << x_page, x_total >>

\* an exception leaves fetch_page and main: the with block closes out_part,
\* line 118 is not reached
Propagate ==
    /\ x_pc' = "raised"
    /\ UNCHANGED << out_part, out_final, x_page, x_total >>

\* lines 96-115 of main for the results fetch_page returned
Returned(count) ==
    /\ out_part' = IF count = 0 THEN out_part
                   ELSE [ out_part EXCEPT
                            !.rows = Append(@, [ page |-> x_page, count |-> count ]) ]
    /\ x_total' = IF count = 0 THEN x_total ELSE x_total + count
    /\ IF count = 0 \/ count < 50
       THEN x_pc' = "replace" /\ x_page' = x_page
       ELSE x_pc' = "fetch" /\ x_page' = x_page + 1
    /\ UNCHANGED out_final

\* one iteration of the loop of fetch_page (export_nh_house_ids.py:48-67),
\* with what main does when it returns or raises; the sleeps change no state
fetch_page ==
    /\ program = "export"
    /\ x_pc = "fetch"
    /\ x_attempt < MaxRequests
    /\ \E answer \in Answers :
         LET attempt1 == x_attempt + 1
         IN CASE answer = "net" ->
                   /\ x_attempt' = attempt1
                   /\ Propagate
              [] answer = "429" ->
                   /\ x_attempt' = attempt1
                   /\ UNCHANGED << x_pc, out_part, out_final, x_page, x_total >>
              [] answer = "5xx" ->
                   /\ x_attempt' = attempt1
                   /\ IF attempt1 < max_retries
                      THEN UNCHANGED << x_pc, out_part, out_final, x_page, x_total >>
                      ELSE Propagate
              [] answer = "200" ->
                   /\ Returned(PageCount(x_page))
                   /\ x_attempt' = IF x_pc' = "fetch" THEN 0 ELSE attempt1
    /\ UNCHANGED << not_export, people_pages, out_before >>

\* os.replace(out_part, out_final) (export_nh_house_ids.py:118)
os_replace ==
    /\ program = "export"
    /\ x_pc = "replace"
    /\ out_final' = out_part
    /\ out_part' = Absent
    /\ x_pc' = "done"
    /\ UNCHANGED << not_export, people_pages, x_page, x_attempt, x_total, out_before >>

NextExport == main \/ fetch_page \/ os_replace

SpecExport == InitExport /\ [][NextExport]_vars

Next ==
    \/ lookup_legislators
    \/ lookup_legislators_get
    \/ lookup_with_votes_post
    \/ lookup_with_votes_get
    \/ geocode_address
    \/ geocode_nominatim
    \/ probe
    \/ _fetch_district_retry
    \/ _lookup_core_finish
    \/ utils_geocode_address
    \/ _req

Spec == Init /\ [][Next]_vars

\* ------------------------------------------------------------------------
\* Properties
\* ------------------------------------------------------------------------
\* a lookup has been answered with success
Done == program = "app" /\ pc = "idle" /\ response.status = 200

\* geocode_address has returned to _lookup_core in the lookup last started
Geocoded == program = "app" /\ req.received /\ (geo.via # "none" \/ geo.err # "")

\* the labels of the district fetches completed in the given overlay loop
FetchedLabels(st) == { f.label : f \in { g \in fetched : g.stage = st } }

BaseEntries ==
    IF Strip(sldl_clean) \in DOMAIN FLOTERIAL_MAP_BASE
    THEN Range(FLOTERIAL_MAP_BASE[Strip(sldl_clean)]) ELSE {}

TownEntries ==
    IF geo.out.town \in DOMAIN FLOTERIAL_MAP_TOWN
    THEN Range(FLOTERIAL_MAP_TOWN[geo.out.town]) ELSE {}

\* C1 as stated: in every answered lookup the districts fetched are the base
\* overlay entries of the base label together with the town overlay entries
\* of the town, whatever the point probes returned.
C1_Original ==
    Done => { f.label : f \in fetched } = BaseEntries \cup TownEntries

\* C1 as the code has it: the base loop fetches exactly the base overlay
\* entries; the town loop fetches the town's entries only when fewer than
\* two distinct district labels are in hand after the base loop, and nothing
\* otherwise.
C1_TownOverlayGated ==
    /\ (program = "app" /\ pc = "fetch" /\ stage = "town")
          => Cardinality(uniq_labels) < 2
    /\ Done =>
         /\ FetchedLabels("base") = BaseEntries
         /\ FetchedLabels("town") =
               IF Cardinality(uniq_labels) < 2 THEN TownEntries ELSE {}

\* a lookup answered for a town that has an entry, with two district labels
\* already in hand: the town's districts were not fetched
C1_Witness ==
    /\ Done
    /\ TownEntries # {}
    /\ Cardinality(uniq_labels) >= 2
    /\ FetchedLabels("town") = {}
    /\ ~(TownEntries \subseteq FetchedLabels("base"))

\* C2: when F is listed as a floterial of base B and B is not listed as a
\* floterial of F, a lookup whose base label is F has no base-loop fetch of
\* B, neither completed nor pending; B is fetched, if at all, by the town
\* loop because the town's entry lists it.
C2_NoInverseMapping ==
    \A B \in DOMAIN FLOTERIAL_MAP_BASE :
      \A i \in DOMAIN FLOTERIAL_MAP_BASE[B] :
        LET F == FLOTERIAL_MAP_BASE[B][i]
        IN ( /\ Geocoded
             /\ Strip(sldl_clean) = F
             /\ (F \in DOMAIN FLOTERIAL_MAP_BASE
                    => B \notin Range(FLOTERIAL_MAP_BASE[F])) )
           => /\ B \notin FetchedLabels("base")
              /\ (pc = "fetch" /\ stage = "base") => B \notin Range(todo)
              /\ B \in FetchedLabels("town") => B \in TownEntries

\* a lookup answered for base label Sullivan 10, a floterial of Sullivan 2
\* with overlay entries of its own, which the base loop fetched
C2_Witness ==
    /\ Done
    /\ Strip(sldl_clean) = Sullivan10
    /\ Sullivan2 \in DOMAIN FLOTERIAL_MAP_BASE
    /\ Sullivan10 \in Range(FLOTERIAL_MAP_BASE[Sullivan2])
    /\ FetchedLabels("base") = { Sullivan7 }

\* C3: the collection never holds two entries with the same person id, and
\* the representatives of an answered lookup have pairwise distinct ids.
C3_OneEntryPerPerson ==
    /\ \A i, j \in DOMAIN collected :
          i # j => collected[i].id # collected[j].id
    /\ Done =>
         LET reps == response.data.stateRepresentatives
         IN \A i, j \in DOMAIN reps : i # j => reps[i].id # reps[j].id

\* an answered lookup in which the member found by the point probe under
\* Sullivan 2 was also in the result of the fetch of Sullivan 10
C3_Witness ==
    /\ Done
    /\ \E f \in fetched : f.label = Sullivan10 /\ f.ok
    /\ \E p \in Range(DirectoryData(Sullivan10)) :
         \E i \in DOMAIN response.data.stateRepresentatives :
            /\ response.data.stateRepresentatives[i].id = PersonKey(p)
            /\ response.data.stateRepresentatives[i].district = Sullivan2

\* everybody people.geo and /people can report
KnownPeople ==
    { P_Ann2, P_Ann10, P_Bob10, P_Senator, P_Vermont, P_Eve7, P_Dee7, P_Dee10 }

\* C4: every representative of an answered lookup is a New Hampshire
\* lower-chamber entry of the collection, and nobody the directory reports
\* with another chamber classification is among them.
C4_LowerChamberOnly ==
    Done =>
      LET reps == response.data.stateRepresentatives
      IN /\ Len(reps) = Len(collected)
         /\ \A i \in DOMAIN reps :
              /\ reps[i].id = collected[i].id
              /\ collected[i].currentRole.orgClassification = lower
              /\ \A p \in KnownPeople :
                    PersonKey(p) = reps[i].id
                       => StrLower(p.org_classification) = lower

\* an answered lookup with representatives, whose fetch of Sullivan 10
\* returned the district's list with the upper-chamber member in it
C4_Witness ==
    /\ Done
    /\ response.data.stateRepresentatives # << >>
    /\ \E f \in fetched : f.label = Sullivan10 /\ f.ok
    /\ P_Senator \in Range(DirectoryData(Sullivan10))

\* C5 as stated: when the directory failed for exactly one of the districts
\* fetched in a lookup, the lookup is answered with success, the members of
\* the other districts are in the result, and the result carries a
\* diagnostic that names the failed district.
C5_Claim ==
    ( /\ program = "app" /\ pc = "idle" /\ req.received
      /\ Cardinality({ f \in fetched : ~f.ok }) = 1
      /\ Cardinality({ f.label : f \in fetched }) > 1 )
    => /\ response.status = 200
       /\ "diagnostics" \in DOMAIN response.data
       /\ \A f \in fetched : ~f.ok => f.label \in response.data.diagnostics

\* C6: a request whose address is missing, empty or blank is answered 400
\* with the route's message and no call has been made: no geocoder, no
\* people.geo, no district fetch, no read of the votes source; the utils
\* geocoder raises "Empty address" with no request sent.
C6_EmptyAddressRejected ==
    /\ (program = "app" /\ req.received /\ Strip(req.raw) = << >>)
          => /\ pc = "idle"
             /\ response.status = 400
             /\ response.message \in { "Missing 'address' in body",
                                       "Missing address query param" }
             /\ calls = NoCalls
             /\ fetched = {}
             /\ attempt = 0
             /\ probe_i = 1
    /\ (program = "utils" /\ u_address = << >>)
          => /\ u_pc = "idle"
             /\ u_calls = 0
             /\ \/ u_result = NoResult
                \/ u_result.kind = "raised" /\ u_result.err = "Empty address"

\* a blank address on a votes route, rejected
C6_Witness ==
    /\ program = "app"
    /\ req.received
    /\ req.raw # << >>
    /\ Strip(req.raw) = << >>
    /\ req.include_votes
    /\ response.status = 400

\* C7 as stated: whenever the Census attempt has failed, geocode_address has
\* called the secondary geocoder before it returns, and returns the
\* secondary's result when there is one.
C7_Original ==
    (Geocoded /\ primary_err # "")
    => /\ calls.nominatim = 1
       /\ alt.found => (geo.err = "" /\ geo.out = alt.out)

\* C7 as the code has it: with NOMINATIM_FALLBACK enabled (the default) a
\* failed Census attempt is followed by one call of the secondary geocoder,
\* whose result is returned when it has one and the primary's failure
\* otherwise; with NOMINATIM_FALLBACK disabled the secondary is not called
\* and the failure is returned.
C7_FallbackWhenEnabled ==
    /\ (program = "app" /\ pc = "nominatim")
          => (NOMINATIM_FALLBACK /\ primary_err # "" /\ calls.nominatim = 0)
    /\ (Geocoded /\ primary_err # "")
          => IF NOMINATIM_FALLBACK
             THEN /\ calls.nominatim = 1
                  /\ alt.found => (geo.err = "" /\ geo.out = alt.out
                                     /\ geo.via = "nominatim")
                  /\ ~alt.found => geo.err = PrimaryFailure(primary_err)
             ELSE /\ calls.nominatim = 0
                  /\ geo.err = PrimaryFailure(primary_err)

\* the Census request raised and the secondary's match was returned
C7_Witness ==
    /\ Geocoded
    /\ primary_err = "error"
    /\ alt.found
    /\ geo.via = "nominatim"
    /\ geo.out = alt.out

\* C8 as stated: a success of geocode_address, in the service and in utils,
\* carries both latitude and longitude, and when both geocoders failed a
\* failure is returned.
C8_Claim ==
    /\ (Geocoded /\ geo.err = "")
          => (geo.out.lat # << >> /\ geo.out.lon # << >>)
    /\ (Geocoded /\ primary_err # "" /\ ~alt.found) => geo.err # ""
    /\ (program = "utils" /\ u_result.kind = "ok")
          => (u_result.lat # << >> /\ u_result.lon # << >>)

\* C9: when geocode_address returned an error or a result lacking a
\* coordinate, the lookup is answered 400 and nothing else was done: no
\* people.geo probe, no district fetch, no read of the votes source, and
\* nobody collected.
C9_GeocodeFailureTerminal ==
    ( /\ Geocoded
      /\ \/ geo.err # ""
         \/ geo.out.lat = << >>
         \/ geo.out.lon = << >> )
    => /\ pc = "idle"
       /\ response.status = 400
       /\ ~response.success
       /\ calls.people_geo = 0
       /\ calls.votes = 0
       /\ probe_i = 1
       /\ fetched = {}
       /\ attempt = 0
       /\ last_fetch = NoFetch
       /\ collected = << >>

\* a votes lookup whose Census match came without a longitude, answered 400
C9_Witness ==
    /\ Geocoded
    /\ geo.via = "census"
    /\ geo.err = ""
    /\ geo.out.lon = << >>
    /\ req.include_votes
    /\ response.status = 400

\* C10 as stated: one district fetch makes at most two directory calls, one
\* retry, and every delay slept is the same.
C10_Original ==
    /\ attempt <= 1
    /\ last_fetch.calls <= 2
    /\ \A i, j \in DOMAIN sleeps : sleeps[i] = sleeps[j]

\* C10 as the code has it: a district fetch that keeps failing, or keeps
\* getting an empty list, is retried three times, four calls in all, with
\* delays of 4, 6 and 8 seconds; a fetch reported as failed has made all four
\* calls.
C10_ThreeRetriesGrowingDelay ==
    /\ attempt <= 3
    /\ Len(sleeps) = attempt
    /\ \A i \in DOMAIN sleeps : sleeps[i] = 4 + 2 * (i - 1)
    /\ last_fetch.calls <= 4
    /\ Len(last_fetch.sleeps) = (IF last_fetch.calls = 0 THEN 0 ELSE last_fetch.calls - 1)
    /\ \A i \in DOMAIN last_fetch.sleeps : last_fetch.sleeps[i] = 4 + 2 * (i - 1)
    /\ (last_fetch.calls > 0 /\ ~last_fetch.ok) => last_fetch.calls = 4
    /\ \A l \in stdout : \E f \in fetched : f.label = l /\ ~f.ok

\* a district fetch given up after four calls and delays of 4, 6 and 8
C10_Witness ==
    /\ last_fetch.calls = 4
    /\ ~last_fetch.ok
    /\ last_fetch.sleeps = << 4, 6, 8 >>
    /\ last_fetch.label \in stdout

\* the keys _ingest gives the listed members of a district
MemberKeys(label) == { PersonKey(p) : p \in Range(DirectoryData(label)) }

\* C11: a district fetch whose first call was answered 429 is retried, and
\* when the second call is answered with data the fetch ends there: two
\* calls in all, one delay, the fetch counted as good and not reported as
\* failed, and the members of the second answer ingested.
C11_Step ==
    /\ (last_fetch'.first = "429" => last_fetch'.calls >= 2)
    /\ ( /\ pc = "fetch"
         /\ attempt = 1
         /\ first_answer = "429"
         /\ attempt' = 0 )
       => /\ last_fetch' = [ label |-> Head(todo), calls |-> 2,
                             sleeps |-> << 4 >>, ok |-> TRUE, first |-> "429" ]
          /\ [ label |-> Head(todo), stage |-> stage, ok |-> TRUE ] \in fetched'
          /\ stdout' = stdout
          /\ MemberKeys(Head(todo)) # {}
          /\ MemberKeys(Head(todo)) \subseteq CollectedKeys(collected')

C11_RateLimitedThenData == [][C11_Step]_vars

\* a fetch of Sullivan 7 answered 429 and then with its members, who are in
\* the collection
C11_Witness ==
    /\ last_fetch.label = Sullivan7
    /\ last_fetch.first = "429"
    /\ last_fetch.calls = 2
    /\ last_fetch.ok
    /\ MemberKeys(Sullivan7) \subseteq CollectedKeys(collected)

\* C12 as stated: a district fetch whose call is answered with an empty
\* result list ends with that answer: it is not called again and the
\* district is not reported as failed.
C12_Claim ==
    /\ first_answer # "empty"
    /\ last_fetch.first = "empty"
          => (last_fetch.calls = 1 /\ last_fetch.label \notin stdout)

\* C13 as stated: each of the four spellings of Sullivan 2 is normalized by
\* sldl_to_openstates to the label "Sullivan 2".
C13_Claim ==
    (program = "labels" /\ label_in \in Spellings /\ label_out # << >>)
    => label_out[1] = Sullivan2

\* C14: normalizing a normalized label changes nothing, for every name.
C14_Idempotent ==
    (program = "labels" /\ Len(label_out) = 2) => label_out[2] = label_out[1]

\* a name with a zero-padded number, normalized twice
C14_Witness ==
    /\ program = "labels"
    /\ label_in = << "S", " ", "0", "0", "2" >>
    /\ label_out = << << "S", " ", "2" >>, << "S", " ", "2" >> >>

\* the ids of the representatives of the response
RepIds ==
    { response.data.stateRepresentatives[i].id :
        i \in DOMAIN response.data.stateRepresentatives }

\* the New Hampshire lower-chamber members people.geo reports at the
\* geocoded point
PointMembers ==
    { PersonKey(p) :
        p \in { q \in Range(PeopleGeo(world, << geo.out.lat[1], geo.out.lon[1] >>)) :
                  q.jurisdiction = "New Hampshire"
                  /\ StrLower(q.org_classification) = lower } }

\* C15 as stated: a CSV file that cannot be loaded leaves its table empty,
\* the town table like the base table, and a lookup is then answered with
\* the members found at the point and no overlay district fetched.
C15_Original ==
    program = "app" =>
      /\ ~csv_files.base.exists => FLOTERIAL_MAP_BASE = EmptyDict
      /\ ~csv_files.town.exists => FLOTERIAL_MAP_TOWN = EmptyDict
      /\ (Done /\ ~csv_files.base.exists /\ ~csv_files.town.exists)
            => fetched = {}

\* C15 as the code has it: without its file the base table is empty and the
\* town table holds the built-in seed, five towns each with Sullivan 7; a
\* lookup is then answered all the same, with the members people.geo
\* reported at the point, no base overlay, and the town overlay of the seed
\* alone.
C15_MissingFileLeavesSeed ==
    program = "app" =>
      /\ ~csv_files.base.exists => FLOTERIAL_MAP_BASE = EmptyDict
      /\ ~csv_files.town.exists =>
            /\ DOMAIN FLOTERIAL_MAP_TOWN =
                  { Cornish, Plainfield, Charlestown, Newport, Unity }
            /\ \A t \in DOMAIN FLOTERIAL_MAP_TOWN :
                  FLOTERIAL_MAP_TOWN[t] = << Sullivan7 >>
      /\ (~csv_files.base.exists /\ ~csv_files.town.exists
             /\ pc = "idle" /\ Geocoded /\ geo.err = ""
             /\ geo.out.lat # << >> /\ geo.out.lon # << >>)
            => /\ Done
               /\ FetchedLabels("base") = {}
               /\ FetchedLabels("town") \subseteq { Sullivan7 }
               /\ << geo.out.lat[1], geo.out.lon[1] >> \in DOMAIN PROBE_CACHE
                     => PointMembers \subseteq RepIds

\* a lookup answered with neither file present: the member found at the
\* point is returned, and the seed's district was fetched for the town
C15_Witness ==
    /\ Done
    /\ ~csv_files.base.exists
    /\ ~csv_files.town.exists
    /\ PointMembers # {}
    /\ PointMembers \subseteq RepIds
    /\ FetchedLabels("town") = { Sullivan7 }

\* whether the loader takes anything from a row: a base cell, and a
\* floterial cell holding at least one label
ValidBaseRow(row) ==
    /\ Strip(Or(row.base_label, row.base)) # << >>
    /\ NonEmptyParts(Split(Strip(Or(row.floterials, row.floterial)), ";")) # << >>

\* the (base, floterial) pairs a row contributes, labels as the loader
\* spells them
RowPairs(row) ==
    LET base == CollapseWs(StrTitle(Strip(Or(row.base_label, row.base))))
        parts == NonEmptyParts(Split(Strip(Or(row.floterials, row.floterial)), ";"))
    IN { << base, CollapseWs(parts[i]) >> : i \in DOMAIN parts }

ValidRows(rows) == SelectSeq(rows, ValidBaseRow)

C17_Claim ==
    Done =>
      LET base   == Strip(sldl_clean)
          reps   == response.data.stateRepresentatives
          labels == { reps[i].district : i \in DOMAIN reps }
      IN \A F \in BaseEntries :
           ( /\ people_geo_up
             /\ MemberKeys(base) # {}
             /\ MemberKeys(F) # {}
             /\ [ label |-> F, stage |-> "base", ok |-> TRUE ] \in fetched )
           => /\ base \in labels
              /\ F \in labels

\* C18: every vote attached to a representative of an answered lookup is
\* one of the labels "For", "Against" and "No Vote".
C18_Claim ==
    (Done /\ req.include_votes) =>
      \A i \in DOMAIN response.data.stateRepresentatives :
        LET votes == response.data.stateRepresentatives[i].votes
        IN \A j \in DOMAIN votes :
             votes[j].vote \in { << "F", "o", "r" >>,
                                 << "A", "g", "a", "i", "n", "s", "t" >>,
                                 << "N", "o", " ", "V", "o", "t", "e" >> }

\* C19: the tables a lookup reads are always a complete load, of the CSV
\* files as they were at some time or as they are now, and once the
\* time-to-live has passed since the files last changed they are the load
\* of the files as they are now.
C19_Claim ==
    (program = "loader" /\ pc = "idle") =>
      /\ FLOTERIAL_MAP_BASE \in { _load_base_map(csv_files.base),
                                 _load_base_map(csv_source.base) }
      /\ FLOTERIAL_MAP_TOWN \in { _load_town_map(csv_files.town),
                                 _load_town_map(csv_source.town) }
      /\ csv_source.aged =>
           /\ FLOTERIAL_MAP_BASE = _load_base_map(csv_source.base)
           /\ FLOTERIAL_MAP_TOWN = _load_town_map(csv_source.town)

\* the entries of the collection made from records without any id
NoIdEntries ==
    { i \in DOMAIN collected :
        \E p \in KnownPeople :
           /\ p.id = << >> /\ p.openstates_id = << >> /\ p.open_states_id = << >>
           /\ collected[i].name = p.name
           /\ collected[i].district = Strip(p.district) }

NHLowerCount == Cardinality({ i \in DOMAIN collected : IsNHLower(collected[i]) })

\* C21: the first point probed is the geocoded point itself; a further
\* point is probed only while fewer than min_nh_lower New Hampshire
\* lower-chamber people are collected, and no people.geo call is made
\* outside the probe loop.
C21_Step ==
    /\ (pc = "probe" /\ probe_i = 1) =>
          ProbePoints[1] = << geo.out.lat[1], geo.out.lon[1] >>
    /\ (pc = "probe" /\ probe_i > 1) => NHLowerCount < min_nh_lower
    /\ calls'.people_geo > calls.people_geo =>
          /\ pc = "probe"
          /\ calls'.people_geo = calls.people_geo + 1
          /\ probe_i = 1 \/ NHLowerCount < min_nh_lower
    /\ (pc = "probe" /\ pc' # "probe" /\ probe_i < Len(ProbePoints)) =>
          Cardinality({ i \in DOMAIN collected' : IsNHLower(collected'[i]) })
             >= min_nh_lower

C21_StopsAtThreshold == [][C21_Step]_vars

\* an answered lookup whose point reported one member and whose third
\* offset point reported the second: four calls, thirteen points left out
C21_Witness ==
    /\ Done
    /\ probe_i = 4
    /\ calls.people_geo = 4
    /\ NHLowerCount >= min_nh_lower

\* C22: the probe loop has 1 + 8 * PROBE_MAX_RINGS points; each iteration
\* either leaves the loop or moves on to the next point, whether the query
\* answered, failed or was empty, so one lookup makes at most
\* 1 + 8 * PROBE_MAX_RINGS people.geo calls, and the loop is left after at
\* most that many iterations: the index of the next point grows by one in
\* every iteration that stays in the loop and never passes the last point.
C22_Step ==
    /\ pc = "probe" =>
          /\ Len(ProbePoints) = 1 + 8 * PROBE_MAX_RINGS
          /\ probe_i \in 1 .. Len(ProbePoints)
          /\ calls.people_geo < probe_i
    /\ calls.people_geo <= 1 + 8 * PROBE_MAX_RINGS
    /\ (pc = "probe" /\ pc' = "probe") =>
          /\ probe_i' = probe_i + 1
          /\ calls'.people_geo <= calls.people_geo + 1
    /\ (pc = "probe" /\ pc' # "probe") =>
          /\ probe_i' = probe_i
          /\ calls'.people_geo <= calls.people_geo + 1

C22_ProbeBounded == [][C22_Step]_vars

\* an answered lookup every one of whose people.geo calls failed: one call
\* for each of the seventeen points and no more
C22_Witness ==
    /\ Done
    /\ ~people_geo_up
    /\ probe_i = 1 + 8 * PROBE_MAX_RINGS
    /\ calls.people_geo = 1 + 8 * PROBE_MAX_RINGS

\* C23: a lookup's probing starts with no probe state left by an earlier
\* lookup, and its result depends on this lookup's own queries only: when
\* every people.geo call of the lookup failed, each representative comes
\* from a district fetch of this lookup.
C23_Claim ==
    program = "app" =>
      /\ (pc = "probe" /\ probe_i = 1) => PROBE_CACHE = EmptyDict
      /\ (Done /\ ~people_geo_up) =>
            \A i \in DOMAIN response.data.stateRepresentatives :
               \E f \in fetched :
                  /\ f.ok
                  /\ response.data.stateRepresentatives[i].id \in MemberKeys(f.label)

\* a point is inside a ring when the ray from it towards greater longitude
\* crosses the ring's edges an odd number of times
InsideRing(lon, lat, ring) ==
    /\ Len(ring) >= 3
    /\ Cardinality({ i \in DOMAIN ring :
          LET a == ring[i]
              b == ring[(i % Len(ring)) + 1]
          IN /\ (a[2] > lat) # (b[2] > lat)
             /\ CrossesRight(a[1], a[2], b[1], b[2], lon, lat) }) % 2 = 1

\* containment as C24 states it
InPolygon(lon, lat, coords) ==
    /\ coords # << >>
    /\ InsideRing(lon, lat, coords[1])
    /\ \A h \in 2 .. Len(coords) : ~InsideRing(lon, lat, coords[h])

FeatureContains(f, lon, lat) ==
    /\ f.has_coordinates
    /\ \/ f.type = "Polygon" /\ InPolygon(lon, lat, f.coordinates)
       \/ /\ f.type = "MultiPolygon"
          /\ \E k \in DOMAIN f.coordinates : InPolygon(lon, lat, f.coordinates[k])

\* C24: find returns the label and properties of the first feature, in the
\* order the features were given, whose Polygon or MultiPolygon contains the
\* point, and None when there is none.
C24_FirstContaining ==
    (program = "districts" /\ find_call.called) =>
      LET fs   == district_index.features
          hits == { i \in DOMAIN fs :
                      FeatureContains(fs[i], find_call.lon, find_call.lat) }
      IN IF hits = {} THEN find_call.result = << >>
         ELSE LET first == CHOOSE i \in hits : \A j \in hits : i <= j
              IN find_call.result =
                    << Or(_coerce_label(fs[first].properties), UNKNOWN),
                       fs[first].properties >>

\* a point in the hole of the first feature and inside the second: the
\* second feature, Sullivan 7, is returned
C24_Witness ==
    /\ program = "districts"
    /\ find_call.called
    /\ find_call.lat = 2
    /\ find_call.lon = 2
    /\ Len(district_index.features) = 2
    /\ district_index.features[1].type = "Polygon"
    /\ Len(district_index.features[1].coordinates) = 2
    /\ find_call.result # << >>
    /\ find_call.result[1] = Sullivan7

\* C25: fetch_page makes at most max_retries requests for one page.
C25_Claim == program = "export" => x_attempt <= max_retries

\* the rows of every page /people holds, under the header
AllPages ==
    << "header" >>
    \o [ p \in 1 .. (people_pages.full + (IF people_pages.last > 0 THEN 1 ELSE 0)) |->
           [ page |-> p, count |-> PageCount(p) ] ]

\* C26: the file at the final path changes only in the step that replaces
\* it by the finished .part file, holding every page; a run that died or
\* raised leaves the final path as it was when the run started.
C26_Step ==
    program = "export" =>
      /\ out_final' # out_final =>
            /\ x_pc = "replace"
            /\ x_pc' = "done"
            /\ out_final' = [ exists |-> TRUE, rows |-> AllPages ]
            /\ out_final' = out_part
      /\ x_pc \in { "idle", "fetch", "replace", "raised", "died" } =>
            out_final = out_before

C26_FinalOnlyByReplace == [][C26_Step]_vars

\* a run that raised while fetching its second page: the first page is in
\* the .part file, the final path still holds the earlier run's file
C26_Witness ==
    /\ program = "export"
    /\ x_pc = "raised"
    /\ x_page = 2
    /\ out_part = [ exists |-> TRUE,
                    rows |-> << "header", [ page |-> 1, count |-> per_page ] >> ]
    /\ out_final = OldFile
    /\ out_before = OldFile

====
